---- MODULE Spec2Model ----
(***************************************************************************)
(* A model of the bridge/dispatch layer of codex-webstrap:                 *)
(*   - encodeFrame / FrameDecoder            (src/src/ipc-uds.mjs)         *)
(*   - UdsIpcClient, the framed bus client   (src/src/ipc-uds.mjs)         *)
(*   - AppServerManager, the subprocess RPC client (src/unnamed/part_002)  *)
(*   - TerminalRegistry                      (src/src/bun-pty-bridge.mjs)  *)
(*   - the Router's message buckets          (src/src/message-router.mjs)  *)
(*   - MessageRouter.handleEnvelope, its registries of connections and     *)
(*     GitWorkerBridge                       (src/src/bun-pty-bridge.mjs)  *)
(*   - the Router's saved workspace roots, its thread/list filter and    *)
(*     the debounced writes of its global state                            *)
(*                                           (src/src/message-router.mjs)  *)
(*   - MessageRouter.dispose                 (src/src/bun-pty-bridge.mjs)  *)
(* Each component has its own specification (SpecFrame, SpecBus, SpecRpc,  *)
(* SpecTerm, SpecRouter) over its own variables; the variables of the      *)
(* other components stay at their initial values. SpecClients runs either  *)
(* request client; SpecWorker and SpecRegistries run the Router with its   *)
(* worker bridge and with its registries, terminal sessions included;      *)
(* SpecUnsupported runs it with the view messages that it declines.        *)
(* SpecWorkspace applies the thread/list filter, SpecPersist runs the      *)
(* handlers that change the global state, and SpecDispose runs the Router  *)
(* up to and after its dispose(). SpecRoots runs the handlers that change  *)
(* the workspace roots, SpecBusData delivers framed bytes to the sockets   *)
(* of the bus client, and SpecStdout delivers output of the subprocess to  *)
(* the RPC client.                                                         *)
(***************************************************************************)
EXTENDS Integers, Sequences, FiniteSets, TLC

VARIABLES
    \* FrameDecoder and the byte stream delivered to it
    fdBuffer,              \* FrameDecoder.buffer: bytes received and not yet consumed
    fdCurrentFrameLength,  \* FrameDecoder.currentFrameLength (NoLength = null)
    fdWire,                \* bytes of the stream that are still to be delivered
    fdSent,                \* what the sender put on the stream, frame by frame
    fdOut,                 \* every message returned by push so far, in order
    fdLastReturn,          \* the messages returned by the last push
    fdError,               \* "none", or the kind of error the last push threw
    fdLastChunk,           \* the chunk handed to the last push
    \* UdsIpcClient and its environment
    bus,                   \* the fields of the UdsIpcClient object
    busReqs,               \* the futures returned by sendRequest, by request id
    busSocks,              \* the sockets made by net.connect, by socket number
    busReconnectArmed,     \* reconnect timeouts armed in the event loop
    busLast,               \* the handler that ran last, and what it found pending
    busStopRejected,       \* ids of the requests rejected by a stop() so far
    busHandled,            \* what the data handler that ran last did with the
                           \* messages of its delivery, in order
    busDelivered,          \* the number of deliveries of the peer so far
    \* AppServerManager and its environment
    rpc,                   \* the fields of the AppServerManager object
    rpcReqs,               \* the futures returned by sendRequest, in call order
    rpcProcs,              \* the subprocesses spawned, by process number
    rpcLast,               \* the handler that ran last, what was live when it
                           \* started and the connection-changed events it emitted
    stdoutSent,            \* the lines that the subprocess writes to its stdout
    stdoutWire,            \* the bytes of them that are still to be delivered
    stdoutHandled,         \* the payloads given to _handleIncoming so far, in order
    stdoutThrew,           \* whether a stdout data handler has thrown
    \* TerminalRegistry and its environment
    term,                  \* the fields of the TerminalRegistry object
    termProcs,             \* the child processes spawned, by process number
    termLast,              \* the handler that ran last and what it did
    \* MessageRouter
    routerClients,         \* MessageRouter.clients
    routerLast,            \* the view message dispatched last and its outcome
    routerClosed,          \* the connections whose close or error event has fired
    sharedObjectSubscribers, \* MessageRouter.sharedObjectSubscribers, by key
    fetchControllers,      \* MessageRouter.fetchControllers: by request id, the
                           \* connection whose _handleFetch made the controller
    routerFetching,        \* the _handleFetch calls that await their fetch
    gitWorker,             \* the fields of the GitWorkerBridge object
    gitPosting,            \* the postMessage calls that await isAvailable()
    workerInbox,           \* the requests posted to the worker and not answered
    envLast,               \* the Router handler that ran last and what it did
    \* MessageRouter's workspace state
    workspaceRootOptions,  \* MessageRouter.workspaceRootOptions.roots
    activeWorkspaceRoots,  \* MessageRouter.activeWorkspaceRoots
    defaultWorkspaceRoot,  \* MessageRouter.defaultWorkspaceRoot
    threadLast,            \* the thread/list result forwarded last: what the
                           \* app-server answered and what was relayed
    persistedAtomState,    \* MessageRouter.persistedAtomState, by key
    globalStateWriteTimer, \* whether MessageRouter.globalStateWriteTimer holds a timer
    persistArmed,          \* the write timers that are armed in the event loop
    persistLast            \* the handler of the global state that ran last, the
                           \* writes to disk that it started and the mutations
                           \* since a write timer last fired (2: two or more)

frameVars == <<fdBuffer, fdCurrentFrameLength, fdWire, fdSent, fdOut, fdLastReturn,
               fdError, fdLastChunk>>

busVars == <<bus, busReqs, busSocks, busReconnectArmed, busLast, busStopRejected,
             busHandled, busDelivered>>

stdoutVars == <<stdoutSent, stdoutWire, stdoutHandled, stdoutThrew>>

rpcVars == <<rpc, rpcReqs, rpcProcs, rpcLast, stdoutVars>>

termVars == <<term, termProcs, termLast>>

routerVars == <<routerClients, routerLast, routerClosed, sharedObjectSubscribers,
                fetchControllers, routerFetching, gitWorker, gitPosting, workerInbox,
                envLast>>

persistVars == <<persistedAtomState, globalStateWriteTimer, persistArmed, persistLast>>

rootVars == <<workspaceRootOptions, activeWorkspaceRoots, defaultWorkspaceRoot>>

workspaceVars == <<rootVars, threadLast, persistVars>>

\* what a step of one component leaves alone
nonFrameVars == <<busVars, rpcVars, termVars, routerVars, workspaceVars>>
nonBusVars == <<frameVars, rpcVars, termVars, routerVars, workspaceVars>>
nonRpcVars == <<frameVars, busVars, termVars, routerVars, workspaceVars>>
nonTermVars == <<frameVars, busVars, rpcVars, routerVars, workspaceVars>>
nonRouterVars == <<frameVars, busVars, rpcVars, termVars, workspaceVars>>
nonRouterTermVars == <<frameVars, busVars, rpcVars, workspaceVars>>
nonWorkspaceVars == <<frameVars, busVars, rpcVars, termVars, routerVars>>

----------------------------------------------------------------------------
(* Bounds of the model *)

\* FrameDecoder's maxFrameBytes constructor parameter, scaled down
MaxFrameBytes == 12
\* FrameDecoder's maxBufferBytes constructor parameter, scaled down
MaxBufferBytes == 16
\* frames put on one stream
MaxFrames == 2
\* sockets one UdsIpcClient makes
MaxBusSockets == 2
\* requests one UdsIpcClient sends, initialize requests included
MaxBusRequests == 3
\* deliveries of bytes that the peer of one UdsIpcClient makes
MaxBusDeliveries == 3
\* lines that the subprocess writes to its stdout
MaxStdoutLines == 3
\* subprocesses one AppServerManager spawns
MaxRpcProcs == 2
\* requests one AppServerManager is asked to send, initialize requests included
MaxRpcRequests == 3
\* child processes the TerminalRegistry spawns
MaxTermProcs == 2
\* postMessage calls of the GitWorkerBridge that await isAvailable() at once
MaxGitPosting == 2
\* characters of a path
MaxPathLen == 3
\* saved workspace roots in one message or state file
MaxRoots == 2
\* entries of one thread/list result
MaxThreads == 2
\* requests the worker holds unanswered
MaxWorkerInbox == 2

NoLength == 0 - 1

----------------------------------------------------------------------------
(* JSON values, JSON.stringify and JSON.parse over a small alphabet.        *)
(* A text is a sequence of code points; strings hold no quote, backslash    *)
(* or control character, so stringify never has to escape.                  *)

JNull == [t |-> "null"]
JBool(b) == [t |-> "bool", b |-> b]
JNum(n) == [t |-> "num", n |-> n]
JStr(s) == [t |-> "str", s |-> s]
JArr(a) == [t |-> "arr", a |-> a]
\* o is the sequence of <<key, value>> members in insertion order
JObj(o) == [t |-> "obj", o |-> o]

RECURSIVE NumText(_)
NumText(n) == IF n < 10 THEN <<48 + n>> ELSE NumText(n \div 10) \o <<48 + (n % 10)>>

RECURSIVE JSONstringify(_)
RECURSIVE StringifyElems(_)
RECURSIVE StringifyMembers(_)
JSONstringify(v) ==
    CASE v.t = "null" -> <<110, 117, 108, 108>>
      [] v.t = "bool" -> IF v.b THEN <<116, 114, 117, 101>> ELSE <<102, 97, 108, 115, 101>>
      [] v.t = "num"  -> NumText(v.n)
      [] v.t = "str"  -> <<34>> \o v.s \o <<34>>
      [] v.t = "arr"  -> <<91>> \o StringifyElems(v.a) \o <<93>>
      [] v.t = "obj"  -> <<123>> \o StringifyMembers(v.o) \o <<125>>

StringifyElems(a) ==
    IF a = <<>> THEN <<>>
    ELSE IF Len(a) = 1 THEN JSONstringify(a[1])
    ELSE JSONstringify(a[1]) \o <<44>> \o StringifyElems(Tail(a))

StringifyMembers(o) ==
    IF o = <<>> THEN <<>>
    ELSE LET m == <<34>> \o o[1][1] \o <<34, 58>> \o JSONstringify(o[1][2])
         IN IF Len(o) = 1 THEN m ELSE m \o <<44>> \o StringifyMembers(Tail(o))

ParseFail(i) == [ok |-> FALSE, v |-> JNull, next |-> i]
ParseOk(v, i) == [ok |-> TRUE, v |-> v, next |-> i]

HasLiteralAt(s, i, lit) ==
    /\ i + Len(lit) - 1 <= Len(s)
    /\ SubSeq(s, i, i + Len(lit) - 1) = lit

IsDigit(c) == c >= 48 /\ c <= 57

RECURSIVE ScanDigits(_, _)
ScanDigits(s, i) == IF i <= Len(s) /\ IsDigit(s[i]) THEN ScanDigits(s, i + 1) ELSE i

RECURSIVE DigitsValue(_)
DigitsValue(d) ==
    IF d = <<>> THEN 0
    ELSE 10 * DigitsValue(SubSeq(d, 1, Len(d) - 1)) + (d[Len(d)] - 48)

\* index of the closing quote of a string whose first character is at i, 0 if none
RECURSIVE ScanString(_, _)
ScanString(s, i) ==
    IF i > Len(s) THEN 0
    ELSE IF s[i] = 34 THEN i
    ELSE IF s[i] = 92 \/ s[i] < 32 THEN 0
    ELSE ScanString(s, i + 1)

RECURSIVE ParseValue(_, _)
RECURSIVE ParseElems(_, _, _)
RECURSIVE ParseMembers(_, _, _)
ParseValue(s, i) ==
    IF i > Len(s) THEN ParseFail(i)
    ELSE IF HasLiteralAt(s, i, <<110, 117, 108, 108>>) THEN ParseOk(JNull, i + 4)
    ELSE IF HasLiteralAt(s, i, <<116, 114, 117, 101>>) THEN ParseOk(JBool(TRUE), i + 4)
    ELSE IF HasLiteralAt(s, i, <<102, 97, 108, 115, 101>>) THEN ParseOk(JBool(FALSE), i + 5)
    ELSE IF s[i] = 48 THEN ParseOk(JNum(0), i + 1)
    ELSE IF IsDigit(s[i]) THEN
        LET j == ScanDigits(s, i)
        IN ParseOk(JNum(DigitsValue(SubSeq(s, i, j - 1))), j)
    ELSE IF s[i] = 34 THEN
        LET q == ScanString(s, i + 1)
        IN IF q = 0 THEN ParseFail(i) ELSE ParseOk(JStr(SubSeq(s, i + 1, q - 1)), q + 1)
    ELSE IF s[i] = 91 THEN
        IF i + 1 <= Len(s) /\ s[i + 1] = 93 THEN ParseOk(JArr(<<>>), i + 2)
        ELSE ParseElems(s, i + 1, <<>>)
    ELSE IF s[i] = 123 THEN
        IF i + 1 <= Len(s) /\ s[i + 1] = 125 THEN ParseOk(JObj(<<>>), i + 2)
        ELSE ParseMembers(s, i + 1, <<>>)
    ELSE ParseFail(i)

ParseElems(s, i, acc) ==
    LET r == ParseValue(s, i)
    IN IF ~r.ok \/ r.next > Len(s) THEN ParseFail(i)
       ELSE IF s[r.next] = 93 THEN ParseOk(JArr(Append(acc, r.v)), r.next + 1)
       ELSE IF s[r.next] = 44 THEN ParseElems(s, r.next + 1, Append(acc, r.v))
       ELSE ParseFail(i)

ParseMembers(s, i, acc) ==
    IF i > Len(s) \/ s[i] # 34 THEN ParseFail(i)
    ELSE LET q == ScanString(s, i + 1)
         IN IF q = 0 \/ q + 1 > Len(s) \/ s[q + 1] # 58 THEN ParseFail(i)
            ELSE LET r == ParseValue(s, q + 2)
                     m == <<SubSeq(s, i + 1, q - 1), r.v>>
                 IN IF ~r.ok \/ r.next > Len(s) THEN ParseFail(i)
                    ELSE IF s[r.next] = 125 THEN ParseOk(JObj(Append(acc, m)), r.next + 1)
                    ELSE IF s[r.next] = 44 THEN ParseMembers(s, r.next + 1, Append(acc, m))
                    ELSE ParseFail(i)

\* JSON.parse(text): ok = FALSE stands for the SyntaxError it throws
JSONparse(s) ==
    LET r == ParseValue(s, 1)
    IN IF r.ok /\ r.next = Len(s) + 1 THEN [ok |-> TRUE, v |-> r.v]
       ELSE [ok |-> FALSE, v |-> JNull]

----------------------------------------------------------------------------
(* UTF-8, for code points below 2048 *)

\* Buffer.from(text, "utf8")
RECURSIVE Utf8Encode(_)
Utf8Encode(s) ==
    IF s = <<>> THEN <<>>
    ELSE (IF s[1] < 128 THEN <<s[1]>>
          ELSE <<192 + (s[1] \div 64), 128 + (s[1] % 64)>>) \o Utf8Encode(Tail(s))

\* buffer.toString("utf8"): an ill-formed byte decodes to U+FFFD
RECURSIVE Utf8Decode(_)
Utf8Decode(b) ==
    IF b = <<>> THEN <<>>
    ELSE IF b[1] < 128 THEN <<b[1]>> \o Utf8Decode(Tail(b))
    ELSE IF b[1] >= 194 /\ b[1] < 224 /\ Len(b) >= 2 /\ b[2] >= 128 /\ b[2] < 192
         THEN <<(b[1] - 192) * 64 + (b[2] - 128)>> \o Utf8Decode(SubSeq(b, 3, Len(b)))
    ELSE <<65533>> \o Utf8Decode(Tail(b))

----------------------------------------------------------------------------
(* encodeFrame and FrameDecoder (src/src/ipc-uds.mjs) *)

\* frame.writeUInt32LE(n, 0)
writeUInt32LE(n) ==
    <<n % 256, (n \div 256) % 256, (n \div 65536) % 256, (n \div 16777216) % 256>>

\* buffer.readUInt32LE(0)
readUInt32LE(b) == b[1] + 256 * b[2] + 65536 * b[3] + 16777216 * b[4]

\* a string is taken to be JSON text already; anything else is stringified
encodeFrame(value) ==
    LET json == IF value.t = "str" THEN value.s ELSE JSONstringify(value)
        payload == Utf8Encode(json)
    IN writeUInt32LE(Len(payload)) \o payload

PushResult(buf, cur, msgs, err) ==
    [buffer |-> buf, currentFrameLength |-> cur, messages |-> msgs, error |-> err]

\* the for (;;) loop of push; a throw loses the messages collected so far
RECURSIVE DecodeLoop(_, _, _)
DecodeLoop(buf, cur, msgs) ==
    IF cur = NoLength /\ Len(buf) < 4 THEN PushResult(buf, cur, msgs, "none")
    ELSE LET cur1 == IF cur = NoLength THEN readUInt32LE(buf) ELSE cur
             buf1 == IF cur = NoLength THEN SubSeq(buf, 5, Len(buf)) ELSE buf
         IN IF cur = NoLength /\ cur1 > MaxFrameBytes
                THEN PushResult(buf1, cur1, <<>>, "frame")
            ELSE IF Len(buf1) < cur1 THEN PushResult(buf1, cur1, msgs, "none")
            ELSE LET parsed == JSONparse(Utf8Decode(SubSeq(buf1, 1, cur1)))
                     rest == SubSeq(buf1, cur1 + 1, Len(buf1))
                 IN IF ~parsed.ok THEN PushResult(rest, NoLength, <<>>, "json")
                    ELSE DecodeLoop(rest, NoLength, Append(msgs, parsed.v))

\* a decoder that forgets the bytes it could not yet consume
FrameDecoderPushNoCarry(buf, cur, chunk) ==
    IF Len(chunk) = 0 THEN PushResult(buf, cur, <<>>, "none")
    ELSE DecodeLoop(chunk, NoLength, <<>>)

\* a decoder that checks the frame limit only once the whole payload is buffered
RECURSIVE DecodeLoopLateLimit(_, _, _)
DecodeLoopLateLimit(buf, cur, msgs) ==
    IF cur = NoLength /\ Len(buf) < 4 THEN PushResult(buf, cur, msgs, "none")
    ELSE LET cur1 == IF cur = NoLength THEN readUInt32LE(buf) ELSE cur
             buf1 == IF cur = NoLength THEN SubSeq(buf, 5, Len(buf)) ELSE buf
         IN IF Len(buf1) < cur1 THEN PushResult(buf1, cur1, msgs, "none")
            ELSE IF cur1 > MaxFrameBytes THEN PushResult(buf1, cur1, <<>>, "frame")
            ELSE LET parsed == JSONparse(Utf8Decode(SubSeq(buf1, 1, cur1)))
                     rest == SubSeq(buf1, cur1 + 1, Len(buf1))
                 IN IF ~parsed.ok THEN PushResult(rest, NoLength, <<>>, "json")
                    ELSE DecodeLoopLateLimit(rest, NoLength, Append(msgs, parsed.v))

FrameDecoderPushLateLimit(buf, cur, chunk) ==
    IF Len(chunk) = 0 THEN PushResult(buf, cur, <<>>, "none")
    ELSE IF Len(buf) + Len(chunk) > MaxBufferBytes THEN PushResult(buf, cur, <<>>, "buffer")
    ELSE DecodeLoopLateLimit(buf \o chunk, cur, <<>>)

\* FrameDecoder.push(chunk) on a decoder holding (buf, cur)
FrameDecoderPush(buf, cur, chunk) ==
    IF Len(chunk) = 0 THEN PushResult(buf, cur, <<>>, "none")
    ELSE IF Len(buf) + Len(chunk) > MaxBufferBytes THEN PushResult(buf, cur, <<>>, "buffer")
    ELSE DecodeLoop(buf \o chunk, cur, <<>>)

(* The streams of SpecFrame: up to MaxFrames frames, each the encoding of a
   payload or a frame that declares one byte more than the frame limit and
   carries that many bytes. *)

Payloads ==
    { JNull, JBool(TRUE), JNum(7), JNum(12),
      JArr(<<>>), JArr(<<JNum(1), JStr(<<97>>)>>),
      JObj(<<>>), JObj(<<<<(<<97>>), JNum(1)>>>>), JObj(<<<<(<<116>>), JStr(<<233>>)>>>>),
      JStr(<<>>), JStr(<<97>>), JStr(<<55>>), JStr(<<34, 233, 34>>) }

FrameKinds ==
    [kind : {"value"}, value : Payloads] \cup {[kind |-> "oversize", value |-> JNull]}

FrameBytes(f) ==
    IF f.kind = "value" THEN encodeFrame(f.value)
    ELSE writeUInt32LE(MaxFrameBytes + 1) \o [i \in 1..(MaxFrameBytes + 1) |-> 120]

RECURSIVE StreamBytes(_)
StreamBytes(fs) == IF fs = <<>> THEN <<>> ELSE FrameBytes(fs[1]) \o StreamBytes(Tail(fs))

\* the frames that may follow the first one on a stream
FollowKinds ==
    { [kind |-> "value", value |-> JNum(7)],
      [kind |-> "value", value |-> JObj(<<<<(<<97>>), JNum(1)>>>>)],
      [kind |-> "oversize", value |-> JNull] }

Streams ==
    { <<f>> \o g : f \in FrameKinds,
                   g \in UNION {[1..n -> FollowKinds] : n \in 0..(MaxFrames - 1)} }

\* the decoder of a specification that delivers no stream
IdleFrame ==
    /\ fdBuffer = <<>>
    /\ fdCurrentFrameLength = NoLength
    /\ fdSent = <<>>
    /\ fdWire = <<>>
    /\ fdOut = <<>>
    /\ fdLastReturn = <<>>
    /\ fdError = "none"
    /\ fdLastChunk = <<>>

InitFrame ==
    /\ fdBuffer = <<>>
    /\ fdCurrentFrameLength = NoLength
    /\ fdSent \in Streams
    /\ fdWire = StreamBytes(fdSent)
    /\ fdOut = <<>>
    /\ fdLastReturn = <<>>
    /\ fdError = "none"
    /\ fdLastChunk = <<>>

\* the stream's owner hands the next n bytes to push; after a throw it
\* destroys the socket, so nothing more is delivered
Deliver(n) ==
    /\ fdError = "none"
    /\ LET chunk == SubSeq(fdWire, 1, n)
           r == FrameDecoderPush(fdBuffer, fdCurrentFrameLength, chunk)
       IN /\ fdBuffer' = r.buffer
          /\ fdCurrentFrameLength' = r.currentFrameLength
          /\ fdLastReturn' = r.messages
          /\ fdOut' = fdOut \o r.messages
          /\ fdError' = r.error
          /\ fdLastChunk' = chunk
          /\ fdWire' = SubSeq(fdWire, n + 1, Len(fdWire))
    /\ UNCHANGED fdSent
    /\ UNCHANGED nonFrameVars

NextFrame == \E n \in 0..Len(fdWire) : Deliver(n)

----------------------------------------------------------------------------
(* UdsIpcClient (src/src/ipc-uds.mjs).

   A handler runs to completion, together with the promise reactions it
   triggers (the continuation of _initialize and the catch of _connectNow),
   before the next event is taken: each action below is one event.  A world
   w = [c, reqs, socks, armed] is the client object, the request futures,
   the sockets and the number of armed reconnect timeouts.

   A future counts the calls of its resolve and reject in "settles"; its
   "state" and "error" are those of the first call.  A socket is
   "connecting", "open", "destroyed" (destroy() was called or the peer ended
   it; its close event is due) or "closed" (the close handler has run). *)

NoSocket == 0

BusWorld(c, reqs, socks, armed) == [c |-> c, reqs |-> reqs, socks |-> socks, armed |-> armed]

\* promise resolve/reject: only the first call settles the future
SettleFuture(r, outcome, err) ==
    [r EXCEPT !.settles = r.settles + 1,
              !.state = IF r.state \in {"pending", "waiting"} THEN outcome ELSE r.state,
              !.error = IF r.state \in {"pending", "waiting"} THEN err ELSE r.error]

\* socket.destroy(): no effect on a socket that is already destroyed
DestroySocket(socks, s) ==
    IF s # NoSocket /\ socks[s] \in {"connecting", "open"}
        THEN [socks EXCEPT ![s] = "destroyed"]
        ELSE socks

\* the catch of _connectNow: a rejected initialize destroys the socket it was
\* sent on
DestroyOnInitFailure(socks, reqs, ids) ==
    [s \in DOMAIN socks |->
        IF socks[s] \in {"connecting", "open"}
           /\ \E i \in ids : reqs[i].method = "initialize" /\ reqs[i].sock = s
            THEN "destroyed" ELSE socks[s]]

\* _rejectAllPending(error)
BusRejectAllPending(w, err) ==
    LET ids == w.c.pending
        reqs1 == [i \in DOMAIN w.reqs |->
                    IF i \in ids
                        THEN SettleFuture([w.reqs[i] EXCEPT !.timer = FALSE], "rejected", err)
                        ELSE w.reqs[i]]
    IN BusWorld([w.c EXCEPT !.pending = {}], reqs1,
                DestroyOnInitFailure(w.socks, w.reqs, ids), w.armed)

\* a _scheduleReconnect that does not look at the timer it already holds
BusScheduleReconnectUnguarded(w) ==
    IF w.c.stopped THEN w
    ELSE BusWorld([w.c EXCEPT !.reconnectTimer = TRUE], w.reqs, w.socks, w.armed + 1)

\* _scheduleReconnect()
BusScheduleReconnect(w) ==
    IF w.c.reconnectTimer \/ w.c.stopped THEN w
    ELSE BusWorld([w.c EXCEPT !.reconnectTimer = TRUE], w.reqs, w.socks, w.armed + 1)

\* _connectNow(): net.connect makes a new socket unless the client is stopped
BusConnectNow(w) ==
    IF w.c.stopped THEN w
    ELSE BusWorld(w.c, w.reqs, Append(w.socks, "connecting"), w.armed)

\* _write(payload) would throw
BusWriteThrows(w) == w.c.socket = NoSocket \/ w.socks[w.c.socket] # "open"

\* sendRequest(method, params): the new future is pending with its timer armed,
\* or rejected at once when _write throws
BusSendRequest(w, method) ==
    LET id == Len(w.reqs) + 1
        fresh == [method |-> method, sock |-> w.c.socket, state |-> "pending",
                  error |-> "none", settles |-> 0, timer |-> TRUE]
        failed == [method |-> method, sock |-> w.c.socket, state |-> "rejected",
                   error |-> "not connected", settles |-> 1, timer |-> FALSE]
    IN IF BusWriteThrows(w)
        THEN BusWorld(w.c, Append(w.reqs, failed),
                      IF method = "initialize" THEN DestroySocket(w.socks, w.c.socket)
                      ELSE w.socks, w.armed)
        ELSE BusWorld([w.c EXCEPT !.pending = @ \cup {id}], Append(w.reqs, fresh),
                      w.socks, w.armed)

\* a stop() that leaves the pending requests alone
BusStopKeepPending(w) ==
    LET c1 == [w.c EXCEPT !.stopped = TRUE, !.reconnectTimer = FALSE]
        armed1 == IF w.c.reconnectTimer THEN w.armed - 1 ELSE w.armed
        w1 == BusWorld(c1, w.reqs, w.socks, armed1)
    IN BusWorld([w1.c EXCEPT !.socket = NoSocket, !.connected = FALSE,
                             !.initialized = FALSE],
                w1.reqs, DestroySocket(w1.socks, w1.c.socket), w1.armed)

\* stop()
BusStop(w) ==
    LET c1 == [w.c EXCEPT !.stopped = TRUE, !.reconnectTimer = FALSE]
        armed1 == IF w.c.reconnectTimer THEN w.armed - 1 ELSE w.armed
        w1 == BusRejectAllPending(BusWorld(c1, w.reqs, w.socks, armed1),
                                  "ipc client stopped")
    IN BusWorld([w1.c EXCEPT !.socket = NoSocket, !.connected = FALSE,
                             !.initialized = FALSE],
                w1.reqs, DestroySocket(w1.socks, w1.c.socket), w1.armed)

\* start()
BusStart(w) == BusConnectNow(BusWorld([w.c EXCEPT !.stopped = FALSE], w.reqs, w.socks, w.armed))

\* the connect callback of socket s, which sends the initialize request
BusOnConnect(w, s) ==
    LET c1 == [w.c EXCEPT !.socket = s, !.connected = TRUE, !.initialized = FALSE,
                          !.clientId = "initializing-client"]
    IN BusSendRequest(BusWorld(c1, w.reqs, [w.socks EXCEPT ![s] = "open"], w.armed),
                      "initialize")

\* the close handler of socket s
BusOnClose(w, s) ==
    LET c1 == [w.c EXCEPT !.connected = FALSE, !.initialized = FALSE,
                          !.socket = NoSocket, !.clientId = "initializing-client"]
        w1 == BusRejectAllPending(
                  BusWorld(c1, w.reqs, [w.socks EXCEPT ![s] = "closed"], w.armed),
                  "ipc socket closed")
    IN BusScheduleReconnect(w1)

\* the callback of the reconnect timeout
BusOnReconnectTimer(w) ==
    BusConnectNow(BusWorld([w.c EXCEPT !.reconnectTimer = FALSE], w.reqs, w.socks,
                           w.armed - 1))

\* the callback of the timeout of request id
BusOnRequestTimeout(w, id) ==
    BusWorld([w.c EXCEPT !.pending = @ \ {id}],
             [w.reqs EXCEPT ![id] = SettleFuture([@ EXCEPT !.timer = FALSE], "rejected",
                                                 "timeout")],
             DestroyOnInitFailure(w.socks, w.reqs, {id}), w.armed)

\* _handleIncomingMessage for {type: "response", requestId: id}; success says
\* whether the response is {resultType: "success", result: {clientId}}.  The
\* continuation of _initialize runs when the request was the initialize one.
BusOnResponse(w, id, success) ==
    IF id \notin w.c.pending THEN w
    ELSE LET r == w.reqs[id]
             reqs1 == [w.reqs EXCEPT ![id] = SettleFuture([@ EXCEPT !.timer = FALSE],
                                                          "resolved", "none")]
             c1 == [w.c EXCEPT !.pending = @ \ {id}]
         IN IF r.method # "initialize" THEN BusWorld(c1, reqs1, w.socks, w.armed)
            ELSE IF success
                THEN BusWorld([c1 EXCEPT !.clientId = "assigned", !.initialized = TRUE],
                              reqs1, w.socks, w.armed)
            ELSE BusWorld(c1, reqs1, DestroySocket(w.socks, r.sock), w.armed)

BusNow == BusWorld(bus, busReqs, busSocks, busReconnectArmed)

BusBecomes(w) ==
    /\ bus' = w.c
    /\ busReqs' = w.reqs
    /\ busSocks' = w.socks
    /\ busReconnectArmed' = w.armed
    /\ busHandled' = <<>>
    /\ UNCHANGED busDelivered
    /\ UNCHANGED nonBusVars

BusInitialFields ==
    [socket |-> NoSocket, connected |-> FALSE, initialized |-> FALSE, stopped |-> FALSE,
     reconnectTimer |-> FALSE, clientId |-> "initializing-client", pending |-> {}]

InitBus ==
    /\ bus = BusInitialFields
    /\ busReqs = <<>>
    /\ busSocks = <<>>
    /\ busReconnectArmed = 0
    /\ busLast = [op |-> "new", ids |-> {}, id |-> 0]
    /\ busStopRejected = {}
    /\ busHandled = <<>>
    /\ busDelivered = 0

\* the client of a specification that does not use the bus
IdleBus == InitBus

BusCanConnect == bus.stopped \/ Len(busSocks) < MaxBusSockets

Start ==
    /\ Len(busSocks) < MaxBusSockets
    /\ BusBecomes(BusStart(BusNow))
    /\ busLast' = [op |-> "start", ids |-> {}, id |-> 0]
    /\ UNCHANGED busStopRejected

Stop ==
    /\ BusBecomes(BusStop(BusNow))
    /\ busLast' = [op |-> "stop", ids |-> bus.pending, id |-> 0]
    /\ busStopRejected' = busStopRejected \cup bus.pending

SendRequest ==
    /\ Len(busReqs) < MaxBusRequests
    /\ BusBecomes(BusSendRequest(BusNow, "request"))
    /\ busLast' = [op |-> "sendRequest", ids |-> {}, id |-> Len(busReqs) + 1]
    /\ UNCHANGED busStopRejected

SocketConnect(s) ==
    /\ busSocks[s] = "connecting"
    /\ Len(busReqs) < MaxBusRequests
    /\ BusBecomes(BusOnConnect(BusNow, s))
    /\ busLast' = [op |-> "connect", ids |-> {}, id |-> s]
    /\ UNCHANGED busStopRejected

\* the peer ends the connection: the end handler destroys the socket
SocketEnd(s) ==
    /\ busSocks[s] = "open"
    /\ BusBecomes(BusWorld(bus, busReqs, DestroySocket(busSocks, s), busReconnectArmed))
    /\ busLast' = [op |-> "end", ids |-> {}, id |-> s]
    /\ UNCHANGED busStopRejected

\* the close event of a socket that was destroyed or could not connect
SocketClose(s) ==
    /\ busSocks[s] \in {"connecting", "destroyed"}
    /\ BusBecomes(BusOnClose(BusNow, s))
    /\ busLast' = [op |-> "close", ids |-> bus.pending, id |-> s]
    /\ UNCHANGED busStopRejected

ReconnectTimer ==
    /\ busReconnectArmed > 0
    /\ BusCanConnect
    /\ BusBecomes(BusOnReconnectTimer(BusNow))
    /\ busLast' = [op |-> "reconnect", ids |-> {}, id |-> 0]
    /\ UNCHANGED busStopRejected

RequestTimeout(id) ==
    /\ busReqs[id].timer
    /\ BusBecomes(BusOnRequestTimeout(BusNow, id))
    /\ busLast' = [op |-> "timeout", ids |-> {}, id |-> id]
    /\ UNCHANGED busStopRejected

\* a response frame arrives on an open socket, for any request id ever used
Response(s, id, success) ==
    /\ busSocks[s] = "open"
    /\ BusBecomes(BusOnResponse(BusNow, id, success))
    /\ busLast' = [op |-> "response", ids |-> {}, id |-> id]
    /\ UNCHANGED busStopRejected

NextBus ==
    \/ Start
    \/ Stop
    \/ SendRequest
    \/ \E s \in DOMAIN busSocks : SocketConnect(s)
    \/ \E s \in DOMAIN busSocks : SocketEnd(s)
    \/ \E s \in DOMAIN busSocks : SocketClose(s)
    \/ ReconnectTimer
    \/ \E id \in DOMAIN busReqs : RequestTimeout(id)
    \/ \E s \in DOMAIN busSocks, id \in DOMAIN busReqs, success \in BOOLEAN :
           Response(s, id, success)

----------------------------------------------------------------------------
(* The data handler of UdsIpcClient and the one FrameDecoder of the client.

   fdBuffer and fdCurrentFrameLength are the fields of this.decoder.  The
   messages on the wire are scaled down with the frame limit: the JSON kind
   of a message stands for its type member.  An array [id] is a response
   with requestId id and resultType "success", an array [id, 0] a response
   with another resultType, a string a broadcast, an object a request, a
   number a client-discovery-request; anything else has no known type. *)

BusMessageType(message) ==
    CASE message.t = "arr" /\ Len(message.a) > 0 /\ message.a[1].t = "num" -> "response"
      [] message.t = "str" -> "broadcast"
      [] message.t = "obj" -> "request"
      [] message.t = "num" -> "client-discovery-request"
      [] OTHER -> "unknown"

BusRequestId(message) == message.a[1].n

BusHandling(w, handled, threw) == [w |-> w, handled |-> handled, threw |-> threw]

\* a handler that emits every message as an event and settles no request
BusHandleIncomingMessageEventsOnly(w, message) ==
    BusHandling(w, <<[type |-> BusMessageType(message), id |-> 0]>>, FALSE)

\* _handleIncomingMessage(message): a response settles the request it names,
\* a client-discovery-request is answered by a _write, which may throw, and
\* any other message is emitted as an event
BusHandleIncomingMessage(w, message) ==
    LET type == BusMessageType(message)
    IN CASE type = "response" ->
                LET id == BusRequestId(message)
                IN IF id \notin w.c.pending THEN BusHandling(w, <<>>, FALSE)
                   ELSE BusHandling(BusOnResponse(w, id, Len(message.a) = 1),
                                    <<[type |-> "resolved", id |-> id]>>, FALSE)
         [] type = "client-discovery-request" ->
                IF BusWriteThrows(w) THEN BusHandling(w, <<>>, TRUE)
                ELSE BusHandling(w, <<[type |-> "written", id |-> 0]>>, FALSE)
         [] OTHER -> BusHandling(w, <<[type |-> type, id |-> 0]>>, FALSE)

\* for (const message of messages) this._handleIncomingMessage(message)
RECURSIVE BusHandleMessages(_, _, _)
BusHandleMessages(w, messages, handled) ==
    IF messages = <<>> THEN BusHandling(w, handled, FALSE)
    ELSE LET h == BusHandleIncomingMessage(w, Head(messages))
         IN IF h.threw THEN BusHandling(h.w, handled, TRUE)
            ELSE BusHandleMessages(h.w, Tail(messages), handled \o h.handled)

\* a data handler that goes on with the messages push had collected when
\* it threw, and leaves the socket open
BusOnDataSkipBadFrame(w, s, r) ==
    BusHandleMessages(w, r.messages, <<>>)

\* the data handler of socket s, r being what this.decoder.push(chunk) did:
\* a throw of push or of a handler destroys the socket
BusOnData(w, s, r) ==
    IF r.error # "none"
        THEN BusHandling(BusWorld(w.c, w.reqs, DestroySocket(w.socks, s), w.armed),
                         <<>>, TRUE)
    ELSE LET h == BusHandleMessages(w, r.messages, <<>>)
         IN IF ~h.threw THEN h
            ELSE BusHandling(BusWorld(h.w.c, h.w.reqs, DestroySocket(h.w.socks, s),
                                      h.w.armed),
                             h.handled, TRUE)

\* a frame as the peer writes it
BusPeerFrame(message) ==
    LET payload == Utf8Encode(JSONstringify(message))
    IN writeUInt32LE(Len(payload)) \o payload

BusResponseFrame(id) == BusPeerFrame(JArr(<<JNum(id)>>))
BusBroadcastFrame == BusPeerFrame(JStr(<<98>>))
BusRequestFrame == BusPeerFrame(JObj(<<>>))
BusDiscoveryFrame == BusPeerFrame(JNum(7))
\* a frame whose payload is no JSON text
BusBadJsonFrame == writeUInt32LE(1) \o <<120>>
\* the length prefix of a frame above the frame limit
BusOversizePrefix == writeUInt32LE(MaxFrameBytes + 1)

\* the requests that the peer answers
BusAnsweredIds == 1..2

\* the deliveries of the peer: a response alone, after a broadcast, after a
\* request, before a frame that is no JSON, after a broadcast with its last
\* bytes still to come, and these last bytes; a client-discovery-request; a
\* frame that is no JSON; an oversized frame; more bytes than the buffer
\* limit allows
BusChunks ==
    UNION {{BusResponseFrame(id),
            BusBroadcastFrame \o BusResponseFrame(id),
            BusRequestFrame \o BusResponseFrame(id),
            BusResponseFrame(id) \o BusBadJsonFrame,
            SubSeq(BusResponseFrame(id), 6, Len(BusResponseFrame(id))),
            BusBroadcastFrame \o SubSeq(BusResponseFrame(id), 1, 5)} :
               id \in BusAnsweredIds}
        \cup {BusDiscoveryFrame, BusBadJsonFrame, BusOversizePrefix,
              BusBroadcastFrame \o BusBroadcastFrame \o <<0, 0, 0>>}

\* a data event of socket s: the chunk goes to the decoder of the client
SocketData(s, chunk) ==
    /\ busSocks[s] = "open"
    /\ busDelivered < MaxBusDeliveries
    /\ busDelivered' = busDelivered + 1
    /\ LET r == FrameDecoderPush(fdBuffer, fdCurrentFrameLength, chunk)
           h == BusOnData(BusNow, s, r)
       IN /\ fdBuffer' = r.buffer
          /\ fdCurrentFrameLength' = r.currentFrameLength
          /\ fdLastReturn' = r.messages
          /\ fdError' = r.error
          /\ fdLastChunk' = chunk
          /\ bus' = h.w.c
          /\ busReqs' = h.w.reqs
          /\ busSocks' = h.w.socks
          /\ busReconnectArmed' = h.w.armed
          /\ busHandled' = h.handled
    /\ busLast' = [op |-> "data", ids |-> bus.pending, id |-> s]
    /\ UNCHANGED <<busStopRejected, fdWire, fdSent, fdOut>>
    /\ UNCHANGED <<rpcVars, termVars, routerVars, workspaceVars>>

\* the client with its socket events and the deliveries of the peer
NextBusData ==
    \/ Start
    \/ SendRequest
    \/ \E s \in DOMAIN busSocks : SocketConnect(s)
    \/ \E s \in DOMAIN busSocks : SocketEnd(s)
    \/ \E s \in DOMAIN busSocks : SocketClose(s)
    \/ ReconnectTimer
    \/ \E s \in DOMAIN busSocks, chunk \in BusChunks : SocketData(s, chunk)

----------------------------------------------------------------------------
(* AppServerManager (src/unnamed/part_002, lines 1459-1742).

   As for the bus client, an action is one event: a call from outside or a
   callback, run to completion together with the promise reactions it
   triggers.  A world w = [c, reqs, procs, emitted] is the manager object,
   the request futures, the subprocesses and the connection-changed events
   emitted so far by the running handler.

   A request future is "waiting" while its sendRequest is suspended in
   _ensureReady, "pending" once sendRequest has armed its timer, and then
   "resolved" or "rejected".  pending maps an id to the future registered
   under it.  A subprocess is "running", "killed" (kill() was called, the
   exit event is due) or "exited" (the exit handler has run). *)

NoProc == 0
NoId == 0

\* the ids a caller of sendRaw may put in its message
RpcRawIds == {1, 2}

RpcWorld(c, reqs, procs, emitted) ==
    [c |-> c, reqs |-> reqs, procs |-> procs, emitted |-> emitted]

MapPut(f, k, v) == [x \in DOMAIN f \cup {k} |-> IF x = k THEN v ELSE f[x]]
MapDelete(f, k) == [x \in DOMAIN f \ {k} |-> f[x]]
EmptyMap == [x \in {} |-> 0]

\* getState()
RpcGetState(c) == [connected |-> c.connected, initialized |-> c.initialized]

\* _emitConnectionChanged()
RpcEmitConnectionChanged(w) ==
    RpcWorld(w.c, w.reqs, w.procs, Append(w.emitted, RpcGetState(w.c)))

\* _sendJson(payload) would throw
RpcSendJsonThrows(w) == w.c.proc = NoProc \/ w.procs[w.c.proc].stdinDestroyed

\* _rejectAllPending(error)
RpcRejectAllPending(w, err) ==
    LET hit == {w.c.pending[id] : id \in DOMAIN w.c.pending}
        reqs1 == [i \in DOMAIN w.reqs |->
                    IF i \in hit
                        THEN SettleFuture([w.reqs[i] EXCEPT !.timer = FALSE], "rejected", err)
                        ELSE w.reqs[i]]
    IN RpcWorld([w.c EXCEPT !.pending = EmptyMap], reqs1, w.procs, w.emitted)

\* the body of sendRequest after the ready check, for the future r: take the
\* id, arm the timer, pending.set(id, ...) and write; undo when _sendJson throws
RpcRegister(w, r) ==
    LET own == w.reqs[r].id = NoId
        id == IF own THEN w.c.nextId ELSE w.reqs[r].id
        c1 == IF own THEN [w.c EXCEPT !.nextId = @ + 1] ELSE w.c
    IN IF RpcSendJsonThrows(w)
        THEN RpcWorld([c1 EXCEPT !.pending = MapDelete(@, id)],
                      [w.reqs EXCEPT ![r] = SettleFuture([@ EXCEPT !.id = id], "rejected",
                                                        "App server stdin is not writable")],
                      w.procs, w.emitted)
        ELSE RpcWorld([c1 EXCEPT !.pending = MapPut(@, id, r)],
                      [w.reqs EXCEPT ![r] = [@ EXCEPT !.id = id, !.state = "pending",
                                                     !.timer = TRUE]],
                      w.procs, w.emitted)

RpcNewFuture(id, method, state, err) ==
    [id |-> id, method |-> method, state |-> state, error |-> err, result |-> "none",
     settles |-> IF state = "rejected" THEN 1 ELSE 0, timer |-> FALSE]

\* the futures suspended in _ensureReady continue, in the order of their
\* calls, once the promise of start() is settled
RECURSIVE RpcResumeWaiters(_, _, _, _)
RpcResumeWaiters(w, ok, err, i) ==
    IF i > Len(w.reqs) THEN w
    ELSE IF w.reqs[i].state # "waiting" THEN RpcResumeWaiters(w, ok, err, i + 1)
    ELSE IF ~ok
        THEN RpcResumeWaiters(
                 RpcWorld(w.c, [w.reqs EXCEPT ![i] = SettleFuture(@, "rejected", err)],
                          w.procs, w.emitted), ok, err, i + 1)
    ELSE IF ~(w.c.connected /\ w.c.initialized)
        THEN RpcResumeWaiters(
                 RpcWorld(w.c, [w.reqs EXCEPT ![i] = SettleFuture(@, "rejected",
                                                         "App server is not connected")],
                          w.procs, w.emitted), ok, err, i + 1)
    ELSE RpcResumeWaiters(RpcRegister(w, i), ok, err, i + 1)

\* the promise reactions that follow a handler: once the initialize request
\* is settled, _initializeProtocol finishes or throws, connectingPromise is
\* cleared and the futures waiting for start() continue
RpcSettleStart(w) ==
    IF ~w.c.connecting \/ w.reqs[w.c.initReq].state = "pending" THEN w
    ELSE LET init == w.reqs[w.c.initReq]
             ok == init.state = "resolved" /\ init.result = "ok" /\ ~RpcSendJsonThrows(w)
             err == IF init.state = "rejected" THEN init.error
                    ELSE IF init.result # "ok" THEN "App server initialize failed"
                    ELSE "App server stdin is not writable"
             c1 == [w.c EXCEPT !.connecting = FALSE, !.initReq = 0,
                               !.initialized = IF ok THEN TRUE ELSE @]
             w1 == RpcWorld(c1, w.reqs, w.procs, w.emitted)
         IN RpcResumeWaiters(IF ok THEN RpcEmitConnectionChanged(w1) ELSE w1, ok, err, 1)

\* _spawnStdioProcess()
RpcSpawnStdioProcess(w) ==
    IF w.c.proc # NoProc /\ w.procs[w.c.proc].state # "killed" THEN w
    ELSE LET procs1 == Append(w.procs, [state |-> "running", stdinDestroyed |-> FALSE])
         IN RpcEmitConnectionChanged(
                RpcWorld([w.c EXCEPT !.proc = Len(procs1), !.connected = TRUE,
                                     !.initialized = FALSE],
                         w.reqs, procs1, w.emitted))

\* _initializeProtocol() up to its await: sendRequest("initialize", ...,
\* {skipReadyCheck: true})
RpcSendInitialize(w) ==
    IF ~w.c.connected \/ RpcSendJsonThrows(w) THEN w
    ELSE LET r == Len(w.reqs) + 1
             w1 == RpcRegister(
                       RpcWorld(w.c, Append(w.reqs, RpcNewFuture(NoId, "initialize",
                                                                  "waiting", "none")),
                                w.procs, w.emitted), r)
         IN RpcWorld([w1.c EXCEPT !.connecting = TRUE, !.initReq = r],
                     w1.reqs, w1.procs, w1.emitted)

\* a start() that looks neither for a start in flight nor for a connected
\* process before it runs the handshake
RpcStartUnshared(w) ==
    LET w0 == RpcWorld([w.c EXCEPT !.stopped = FALSE], w.reqs, w.procs, w.emitted)
    IN IF w0.c.connected /\ w0.c.initialized THEN w0
       ELSE RpcSendInitialize(RpcSpawnStdioProcess(w0))

\* start(): _startInternal runs up to the await of the initialize response
RpcStart(w) ==
    LET w0 == RpcWorld([w.c EXCEPT !.stopped = FALSE], w.reqs, w.procs, w.emitted)
    IN IF w0.c.connected /\ w0.c.initialized THEN w0
       ELSE IF w0.c.connecting THEN w0
       ELSE IF w0.c.proc # NoProc /\ w0.procs[w0.c.proc].state # "killed" /\ w0.c.connected
           THEN w0
       ELSE RpcSendInitialize(RpcSpawnStdioProcess(w0))

\* stop()
RpcStop(w) ==
    LET w1 == RpcRejectAllPending(
                  RpcWorld([w.c EXCEPT !.stopped = TRUE], w.reqs, w.procs, w.emitted),
                  "App server stopped")
        procs1 == IF w1.c.proc # NoProc /\ w1.procs[w1.c.proc].state = "running"
                      THEN [w1.procs EXCEPT ![w1.c.proc].state = "killed"] ELSE w1.procs
    IN RpcSettleStart(RpcEmitConnectionChanged(
           RpcWorld([w1.c EXCEPT !.proc = NoProc, !.connected = FALSE,
                                 !.initialized = FALSE, !.stdoutBuffer = <<>>],
                    w1.reqs, procs1, w1.emitted)))

\* sendRequest(method, params, {id}) from outside; id = NoId takes nextId++
RpcSendRequest(w, id) ==
    LET r == Len(w.reqs) + 1
        ready == w.c.connected /\ w.c.initialized /\ ~RpcSendJsonThrows(w)
        add(x, state, err) ==
            RpcWorld(x.c, Append(x.reqs, RpcNewFuture(id, "request", state, err)),
                     x.procs, x.emitted)
    IN IF ready THEN RpcRegister(add(w, "waiting", "none"), r)
       ELSE LET w1 == RpcStart(w)
            IN IF w1.c.connecting THEN add(w1, "waiting", "none")
               ELSE IF ~(w1.c.connected /\ w1.c.initialized)
                   THEN add(w1, "rejected", "App server is not connected")
               ELSE RpcRegister(add(w1, "waiting", "none"), Len(w1.reqs) + 1)

\* sendNotification(method, params), and sendRaw(message) for a message
\* without id: _ensureReady, then a write; the promise it returns is not
\* followed
RpcSendNotification(w) ==
    IF w.c.connected /\ w.c.initialized /\ ~RpcSendJsonThrows(w) THEN w ELSE RpcStart(w)

\* the exit handler of subprocess p
RpcOnExit(w, p) ==
    LET c1 == [w.c EXCEPT !.proc = NoProc, !.connected = FALSE, !.initialized = FALSE,
                          !.stdoutBuffer = <<>>]
        procs1 == [w.procs EXCEPT ![p].state = "exited", ![p].stdinDestroyed = TRUE]
    IN RpcSettleStart(RpcEmitConnectionChanged(
           RpcRejectAllPending(RpcWorld(c1, w.reqs, procs1, w.emitted),
                               "App server process exited")))

\* _handleIncoming for a line {id, result} or {id, error}
RpcHandleIncoming(w, id, result) ==
    IF id \notin DOMAIN w.c.pending THEN w
    ELSE LET r == w.c.pending[id]
         IN RpcSettleStart(
                RpcWorld([w.c EXCEPT !.pending = MapDelete(@, id)],
                         [w.reqs EXCEPT ![r] =
                              [SettleFuture([@ EXCEPT !.timer = FALSE], "resolved", "none")
                                  EXCEPT !.result = IF w.reqs[r].state = "pending"
                                                        THEN result ELSE w.reqs[r].result]],
                         w.procs, w.emitted))

\* a timeout callback that rejects and leaves the entry in the map
RpcOnTimeoutKeepEntry(w, r) ==
    RpcSettleStart(
        RpcWorld(w.c,
                 [w.reqs EXCEPT ![r] = SettleFuture([@ EXCEPT !.timer = FALSE], "rejected",
                                                   "app-server request timeout")],
                 w.procs, w.emitted))

\* the callback of the timeout of the future r: pending.delete(id); reject
RpcOnTimeout(w, r) ==
    RpcSettleStart(
        RpcWorld([w.c EXCEPT !.pending = MapDelete(@, w.reqs[r].id)],
                 [w.reqs EXCEPT ![r] = SettleFuture([@ EXCEPT !.timer = FALSE], "rejected",
                                                   "app-server request timeout")],
                 w.procs, w.emitted))

RpcNow == RpcWorld(rpc, rpcReqs, rpcProcs, <<>>)

\* the futures that are not settled
RpcLive == {i \in DOMAIN rpcReqs : rpcReqs[i].state \in {"waiting", "pending"}}

RpcBecomes(w) ==
    /\ Len(w.procs) <= MaxRpcProcs
    /\ Len(w.reqs) <= MaxRpcRequests
    /\ rpc' = w.c
    /\ rpcReqs' = w.reqs
    /\ rpcProcs' = w.procs
    /\ UNCHANGED stdoutVars
    /\ UNCHANGED nonRpcVars

RpcRan(op, id, w) ==
    [op |-> op, id |-> id, live |-> RpcLive, ids |-> DOMAIN rpc.pending,
     emitted |-> w.emitted]

RpcInitialFields ==
    [proc |-> NoProc, connected |-> FALSE, initialized |-> FALSE, stopped |-> FALSE,
     nextId |-> 1, pending |-> EmptyMap, connecting |-> FALSE, initReq |-> 0,
     stdoutBuffer |-> <<>>]

\* a subprocess that writes nothing to its stdout
IdleStdout ==
    /\ stdoutSent = [lines |-> <<>>, partial |-> <<>>]
    /\ stdoutWire = <<>>
    /\ stdoutHandled = <<>>
    /\ stdoutThrew = FALSE

InitRpcClient ==
    /\ rpc = RpcInitialFields
    /\ rpcReqs = <<>>
    /\ rpcProcs = <<>>
    /\ rpcLast = [op |-> "new", id |-> NoId, live |-> {}, ids |-> {}, emitted |-> <<>>]

InitRpc == InitRpcClient /\ IdleStdout

\* the manager of a specification that does not use it
IdleRpc == InitRpc

AppStart ==
    /\ RpcBecomes(RpcStart(RpcNow))
    /\ rpcLast' = RpcRan("start", NoId, RpcStart(RpcNow))

AppStop ==
    /\ RpcBecomes(RpcStop(RpcNow))
    /\ rpcLast' = RpcRan("stop", NoId, RpcStop(RpcNow))

AppSendRequest ==
    /\ RpcBecomes(RpcSendRequest(RpcNow, NoId))
    /\ rpcLast' = RpcRan("sendRequest", NoId, RpcSendRequest(RpcNow, NoId))

\* sendRaw(message) with message.id and message.method
AppSendRaw(id) ==
    /\ RpcBecomes(RpcSendRequest(RpcNow, id))
    /\ rpcLast' = RpcRan("sendRaw", id, RpcSendRequest(RpcNow, id))

AppSendNotification ==
    /\ RpcBecomes(RpcSendNotification(RpcNow))
    /\ rpcLast' = RpcRan("sendNotification", NoId, RpcSendNotification(RpcNow))

ProcExit(p) ==
    /\ rpcProcs[p].state \in {"running", "killed"}
    /\ RpcBecomes(RpcOnExit(RpcNow, p))
    /\ rpcLast' = RpcRan("exit", NoId, RpcOnExit(RpcNow, p))

\* the subprocess closes its end of the stdin pipe
ProcStdinClose(p) ==
    /\ rpcProcs[p].state = "running"
    /\ ~rpcProcs[p].stdinDestroyed
    /\ RpcBecomes(RpcWorld(rpc, rpcReqs, [rpcProcs EXCEPT ![p].stdinDestroyed = TRUE], <<>>))
    /\ rpcLast' = RpcRan("stdinClose", NoId, RpcNow)

\* a line with an id arrives on the stdout of a subprocess that has not exited
ProcLine(p, id, result) ==
    /\ rpcProcs[p].state \in {"running", "killed"}
    /\ RpcBecomes(RpcHandleIncoming(RpcNow, id, result))
    /\ rpcLast' = RpcRan("line", id, RpcHandleIncoming(RpcNow, id, result))

AppRequestTimeout(r) ==
    /\ rpcReqs[r].timer
    /\ RpcBecomes(RpcOnTimeout(RpcNow, r))
    /\ rpcLast' = RpcRan("timeout", rpcReqs[r].id, RpcOnTimeout(RpcNow, r))

\* the ids that have been used for a request so far
RpcUsedIds == {rpcReqs[i].id : i \in DOMAIN rpcReqs} \ {NoId}

NextRpc ==
    \/ AppStart
    \/ AppStop
    \/ AppSendRequest
    \/ \E id \in RpcRawIds : AppSendRaw(id)
    \/ AppSendNotification
    \/ \E p \in DOMAIN rpcProcs : ProcExit(p)
    \/ \E p \in DOMAIN rpcProcs : ProcStdinClose(p)
    \/ \E p \in DOMAIN rpcProcs, id \in RpcUsedIds, result \in {"ok", "error"} :
           ProcLine(p, id, result)
    \/ \E r \in DOMAIN rpcReqs : AppRequestTimeout(r)

----------------------------------------------------------------------------
(* The stdout of the subprocess: _handleStdoutChunk (src/unnamed/part_002). *)
(* A text is a sequence of code points, a chunk a sequence of bytes.        *)

\* String.prototype.trim, for blanks, tabs and carriage returns
IsBlank(c) == c \in {32, 9, 13}

RECURSIVE TextTrimStart(_)
TextTrimStart(text) ==
    IF text # <<>> /\ IsBlank(Head(text)) THEN TextTrimStart(Tail(text)) ELSE text

RECURSIVE TextTrimEnd(_)
TextTrimEnd(text) ==
    IF text # <<>> /\ IsBlank(text[Len(text)])
        THEN TextTrimEnd(SubSeq(text, 1, Len(text) - 1))
    ELSE text

TextTrim(text) == TextTrimEnd(TextTrimStart(text))

\* text.indexOf("\n"), counted from 1; 0 when there is none
RECURSIVE NewlineIndex(_, _)
NewlineIndex(text, i) ==
    IF i > Len(text) THEN 0 ELSE IF text[i] = 10 THEN i ELSE NewlineIndex(text, i + 1)

\* payload.id of a payload that is not null; NoId when it has none
RpcPayloadId(payload) ==
    IF payload.t = "obj"
       /\ \E i \in DOMAIN payload.o : payload.o[i][1] = <<105, 100>> /\ payload.o[i][2].t = "num"
        THEN LET i == CHOOSE i \in DOMAIN payload.o : payload.o[i][1] = <<105, 100>>
             IN payload.o[i][2].n
    ELSE NoId

StdoutHandling(w, handled, threw) == [w |-> w, handled |-> handled, threw |-> threw]

\* the for (;;) loop of _handleStdoutChunk: a line that is no JSON is
\* dropped; _handleIncoming emits the payload as a message and then reads
\* payload.id, which throws a TypeError for the payload null
RECURSIVE RpcHandleStdoutLines(_, _)
RpcHandleStdoutLines(w, handled) ==
    LET newlineIndex == NewlineIndex(w.c.stdoutBuffer, 1)
    IN IF newlineIndex = 0 THEN StdoutHandling(w, handled, FALSE)
       ELSE LET line == TextTrim(SubSeq(w.c.stdoutBuffer, 1, newlineIndex - 1))
                rest == SubSeq(w.c.stdoutBuffer, newlineIndex + 1, Len(w.c.stdoutBuffer))
                w1 == RpcWorld([w.c EXCEPT !.stdoutBuffer = rest], w.reqs, w.procs,
                               w.emitted)
                parsed == JSONparse(line)
            IN IF line = <<>> THEN RpcHandleStdoutLines(w1, handled)
               ELSE IF ~parsed.ok THEN RpcHandleStdoutLines(w1, handled)
               ELSE IF parsed.v.t = "null"
                   THEN StdoutHandling(w1, Append(handled, parsed.v), TRUE)
               ELSE RpcHandleStdoutLines(
                        IF RpcPayloadId(parsed.v) = NoId THEN w1
                        ELSE RpcHandleIncoming(w1, RpcPayloadId(parsed.v), "ok"),
                        Append(handled, parsed.v))

\* the data handler of proc.stdout: _handleStdoutChunk(chunk.toString("utf8"))
RpcHandleStdoutChunk(w, chunk) ==
    RpcHandleStdoutLines(
        RpcWorld([w.c EXCEPT !.stdoutBuffer = @ \o Utf8Decode(chunk)], w.reqs, w.procs,
                 w.emitted), <<>>)

\* the lines of the model: the response to request 1, a line that is no
\* JSON, the JSON text null, a string with a character of two bytes, a
\* number between blanks, an empty line
StdoutResponseLine == JSONstringify(JObj(<<<<(<<105, 100>>), JNum(1)>>>>))
StdoutBadLine == <<120>>
StdoutNullLine == JSONstringify(JNull)
StdoutStringLine == JSONstringify(JStr(<<233>>))
StdoutPaddedLine == <<32, 55, 13>>

StdoutLines ==
    {StdoutResponseLine, StdoutBadLine, StdoutNullLine, StdoutStringLine,
     StdoutPaddedLine, <<>>}

\* up to MaxStdoutLines lines, and the start of a line whose newline never
\* comes
StdoutStreams ==
    [lines : UNION {[1..n -> StdoutLines] : n \in 1..MaxStdoutLines},
     partial : {<<>>, SubSeq(StdoutResponseLine, 1, 5)}]

RECURSIVE StdoutLineBytes(_)
StdoutLineBytes(lines) ==
    IF lines = <<>> THEN <<>>
    ELSE Utf8Encode(Head(lines)) \o <<10>> \o StdoutLineBytes(Tail(lines))

StdoutBytes(stream) == StdoutLineBytes(stream.lines) \o Utf8Encode(stream.partial)

InitStdout ==
    /\ stdoutSent \in StdoutStreams
    /\ stdoutWire = StdoutBytes(stdoutSent)
    /\ stdoutHandled = <<>>
    /\ stdoutThrew = FALSE

\* a data event of the stdout of subprocess p with the next n bytes; an
\* exception that leaves the handler ends the server
StdoutData(p, n) ==
    /\ rpcProcs[p].state = "running"
    /\ ~stdoutThrew
    /\ LET h == RpcHandleStdoutChunk(RpcNow, SubSeq(stdoutWire, 1, n))
       IN /\ rpc' = h.w.c
          /\ rpcReqs' = h.w.reqs
          /\ rpcProcs' = h.w.procs
          /\ stdoutHandled' = stdoutHandled \o h.handled
          /\ stdoutThrew' = h.threw
          /\ rpcLast' = RpcRan("stdout", NoId, h.w)
    /\ stdoutWire' = SubSeq(stdoutWire, n + 1, Len(stdoutWire))
    /\ UNCHANGED <<stdoutSent, nonRpcVars>>

NextStdout ==
    \/ AppStart
    \/ \E p \in DOMAIN rpcProcs, n \in 1..Len(stdoutWire) : StdoutData(p, n)

----------------------------------------------------------------------------
(* TerminalRegistry (src/src/bun-pty-bridge.mjs)                           *)
(*                                                                         *)
(* A handler of the registry is an operator from a "world" to a world: c   *)
(* holds the fields of the registry, procs the child processes spawned so  *)
(* far, sent the messages given to sendToWs by the handler, touched the    *)
(* processes the handler wrote to or killed, threw whether it threw.       *)
(* sessions is a function from session ids to sessions; the listeners of a *)
(* session are a sequence without repetitions, the insertion order of the  *)
(* Set of the code.                                                        *)

\* the connections and the session ids of the messages
TermConns == {"ws1", "ws2"}
TermSessionIds == {"s1", "s2"}

NoConn == "none"
NoSession == "none"

\* what _resolveLaunchConfig makes of a message: its cwd and shell; the
\* attach log of a session names the mode of its runtime and its cwd
TermLaunches == {"l1", "l2"}
NoLaunch == "none"
NoLog == <<>>
TermAttachLog(mode, launch) == <<mode, launch>>

TermWorld(c, procs, sent, touched, threw) ==
    [c |-> c, procs |-> procs, sent |-> sent, touched |-> touched, threw |-> threw,
     tried |-> <<>>]

SeqToSet(q) == {q[i] : i \in DOMAIN q}

\* Set.prototype.add and Set.prototype.delete on an insertion-ordered set
SetAdd(q, x) == IF x \in SeqToSet(q) THEN q ELSE Append(q, x)
SetDelete(q, x) == SelectSeq(q, LAMBDA y : y # x)

TermHas(w, sid) == sid \in DOMAIN w.c.sessions

\* this.sendToWs(ws, {type, sessionId, ...})
TermSend(w, ws, type, sid) ==
    [w EXCEPT !.sent = Append(@, [to |-> ws, type |-> type, sessionId |-> sid,
                                  launch |-> NoLaunch, log |-> NoLog])]

\* an attach that replays the log alone
TermSendAttachedLogOnly(w, ws, sid, launch, log) ==
    [w EXCEPT !.sent = Append(@, [to |-> ws, type |-> "terminal-init-log", sessionId |-> sid,
                                  launch |-> NoLaunch, log |-> log])]

\* sendToWs(ws, {type: "terminal-attached", sessionId, cwd, shell}) and
\* sendToWs(ws, {type: "terminal-init-log", sessionId, log})
TermSendAttached(w, ws, sid, launch, log) ==
    [w EXCEPT !.sent = @ \o <<[to |-> ws, type |-> "terminal-attached", sessionId |-> sid,
                               launch |-> launch, log |-> NoLog],
                              [to |-> ws, type |-> "terminal-init-log", sessionId |-> sid,
                               launch |-> NoLaunch, log |-> log]>>]

\* _broadcast(sessionId, message)
TermBroadcast(w, sid, type) ==
    IF ~TermHas(w, sid) THEN w
    ELSE LET l == w.c.sessions[sid].listeners
         IN [w EXCEPT !.sent = @ \o [i \in 1..Len(l) |->
                                        [to |-> l[i], type |-> type, sessionId |-> sid,
                                         launch |-> NoLaunch, log |-> NoLog]]]

\* a write to the stdin of process p
TermStdinWrite(w, p) == [w EXCEPT !.touched = @ \cup {p}]

\* proc.kill() unless proc.killed
TermKill(w, p) ==
    IF w.procs[p].state = "killed" THEN w
    ELSE [w EXCEPT !.touched = @ \cup {p},
                   !.procs[p].state = IF @ = "running" THEN "killed" ELSE @]

\* resize(sessionId, cols, rows); fails: the write to the bridge's stdin throws
TermResize(w, sid, fails) ==
    IF ~TermHas(w, sid) THEN w
    ELSE LET session == w.c.sessions[sid]
         IN IF session.mode = "bun-pty"
                THEN IF fails
                         THEN TermBroadcast(TermStdinWrite(w, session.proc), sid,
                                            "terminal-error")
                         ELSE TermStdinWrite(w, session.proc)
                ELSE w

\* write(sessionId, data); fails: the write to the process's stdin throws
TermWrite(w, sid, fails) ==
    IF ~TermHas(w, sid) THEN w
    ELSE LET session == w.c.sessions[sid]
         IN IF fails
                THEN TermBroadcast(TermStdinWrite(w, session.proc), sid, "terminal-error")
                ELSE TermStdinWrite(w, session.proc)

\* a close that reads the session's fields without looking whether there is one
TermCloseUnguarded(w, sid) ==
    IF ~TermHas(w, sid) THEN [w EXCEPT !.threw = TRUE]
    ELSE LET session == w.c.sessions[sid]
             w1 == IF session.mode = "bun-pty" THEN TermStdinWrite(w, session.proc) ELSE w
             w2 == TermKill(w1, session.proc)
         IN [w2 EXCEPT !.c.sessions = [x \in DOMAIN @ \ {sid} |-> @[x]]]

\* close(sessionId)
TermClose(w, sid) ==
    IF ~TermHas(w, sid) THEN w
    ELSE LET session == w.c.sessions[sid]
             w1 == IF session.mode = "bun-pty" THEN TermStdinWrite(w, session.proc) ELSE w
             w2 == TermKill(w1, session.proc)
         IN [w2 EXCEPT !.c.sessions = [x \in DOMAIN @ \ {sid} |-> @[x]]]

\* a step of removeListener that closes the session although listeners remain
TermDetachEager(w, ws, sid) ==
    LET was == ws \in SeqToSet(w.c.sessions[sid].listeners)
        w1 == [w EXCEPT !.c.sessions[sid].listeners = SetDelete(@, ws)]
    IN IF was THEN TermClose(w1, sid) ELSE w1

\* one step of the loop of removeListener(ws), for the entry of sid
TermDetach(w, ws, sid) ==
    LET w1 == [w EXCEPT !.c.sessions[sid].listeners = SetDelete(@, ws)]
    IN IF Len(w1.c.sessions[sid].listeners) = 0 THEN TermClose(w1, sid) ELSE w1

\* removeListener(ws): the loop over the entries of sessions, todo being the
\* ids still to visit
RECURSIVE TermRemoveListener(_, _, _)
TermRemoveListener(w, ws, todo) ==
    IF todo = {} THEN w
    ELSE LET sid == CHOOSE x \in todo : TRUE
         IN TermRemoveListener(TermDetach(w, ws, sid), ws, todo \ {sid})

\* dispose(): close every session
RECURSIVE TermDispose(_, _)
TermDispose(w, todo) ==
    IF todo = {} THEN w
    ELSE LET sid == CHOOSE x \in todo : TRUE
         IN TermDispose(TermClose(w, sid), todo \ {sid})

\* what childSpawn does in each of the three runtimes: TRUE when it throws
TermSpawnOutcomes == [bun : BOOLEAN, python : BOOLEAN, pipe : BOOLEAN]

TermNewProc(w, sid, mode) ==
    [w EXCEPT !.procs = Append(@, [sessionId |-> sid, mode |-> mode, state |-> "running"])]

\* childSpawn for the runtime of a mode is called
TermTry(w, mode) == [w EXCEPT !.tried = Append(@, mode)]

\* a _spawnRuntime whose _spawnBunPtyRuntime does not record a failed spawn
TermSpawnRuntimeForgetful(w, sid, out) ==
    LET tryBun == w.c.bunPtyAvailable
        w0 == IF tryBun THEN TermTry(w, "bun-pty") ELSE w
        w1 == w0
        tryPython == w1.c.pythonPtyAvailable
        w2 == IF tryPython THEN TermTry(w1, "python-pty") ELSE w1
        w3 == IF tryPython /\ out.python THEN [w2 EXCEPT !.c.pythonPtyAvailable = FALSE]
              ELSE w2
    IN IF tryBun /\ ~out.bun THEN [w |-> TermNewProc(w0, sid, "bun-pty"), mode |-> "bun-pty"]
       ELSE IF tryPython /\ ~out.python
           THEN [w |-> TermNewProc(w2, sid, "python-pty"), mode |-> "python-pty"]
       ELSE IF ~out.pipe
           THEN [w |-> TermNewProc(TermTry(w3, "pipe"), sid, "pipe"), mode |-> "pipe"]
       ELSE [w |-> TermTry(w3, "pipe"), mode |-> "throws"]

\* _spawnRuntime(launchConfig, message): the world after it and the mode of
\* the runtime it returned, "throws" when the spawn of the pipe runtime threw
TermSpawnRuntime(w, sid, out) ==
    LET tryBun == w.c.bunPtyAvailable
        w0 == IF tryBun THEN TermTry(w, "bun-pty") ELSE w
        w1 == IF tryBun /\ out.bun THEN [w0 EXCEPT !.c.bunPtyAvailable = FALSE] ELSE w0
        tryPython == w1.c.pythonPtyAvailable
        w2 == IF tryPython THEN TermTry(w1, "python-pty") ELSE w1
        w3 == IF tryPython /\ out.python THEN [w2 EXCEPT !.c.pythonPtyAvailable = FALSE]
              ELSE w2
    IN IF tryBun /\ ~out.bun THEN [w |-> TermNewProc(w0, sid, "bun-pty"), mode |-> "bun-pty"]
       ELSE IF tryPython /\ ~out.python
           THEN [w |-> TermNewProc(w2, sid, "python-pty"), mode |-> "python-pty"]
       ELSE IF ~out.pipe
           THEN [w |-> TermNewProc(TermTry(w3, "pipe"), sid, "pipe"), mode |-> "pipe"]
       ELSE [w |-> TermTry(w3, "pipe"), mode |-> "throws"]

\* the part of createOrAttach for a session id that has no session
TermCreate(w, ws, sid, launch, out) ==
    LET r == TermSpawnRuntime(w, sid, out)
    IN IF r.mode = "throws" THEN TermSend(r.w, ws, "terminal-error", sid)
       ELSE LET session == [listeners |-> <<ws>>, mode |-> r.mode, proc |-> Len(r.w.procs),
                            launch |-> launch, attachLog |-> TermAttachLog(r.mode, launch)]
                w1 == [r.w EXCEPT !.c.sessions =
                          [x \in DOMAIN @ \cup {sid} |-> IF x = sid THEN session ELSE @[x]]]
            IN TermSendAttached(w1, ws, sid, session.launch, session.attachLog)

\* a createOrAttach that does not look for an existing session
TermCreateOrAttachAlwaysSpawn(w, ws, sid, launch, out, fails) ==
    TermCreate(w, ws, sid, launch, out)

\* createOrAttach(ws, message) with message.sessionId = sid
TermCreateOrAttach(w, ws, sid, launch, out, fails) ==
    IF TermHas(w, sid)
        THEN LET existing == w.c.sessions[sid]
                 w1 == [w EXCEPT !.c.sessions[sid].listeners = SetAdd(@, ws)]
                 w2 == TermSendAttached(w1, ws, sid, existing.launch, existing.attachLog)
             IN TermResize(w2, sid, fails)
        ELSE TermCreate(w, ws, sid, launch, out)

\* the "exit" event of process p
TermOnExit(w, p) ==
    LET sid == w.procs[p].sessionId
        w1 == [w EXCEPT !.procs[p].state = "exited"]
    IN IF w.procs[p].mode = "bun-pty" /\ ~TermHas(w, sid) THEN w1
       ELSE LET w2 == TermBroadcast(w1, sid, "terminal-exit")
            IN [w2 EXCEPT !.c.sessions = [x \in DOMAIN @ \ {sid} |-> @[x]]]

\* output of process p: a chunk of stdout or stderr of a pipe or python
\* runtime or a data line of the bun bridge (kind = "data"), an "error"
\* event of the process, a chunk of stderr or an error line of the bun
\* bridge (kind = "error"), or an exit line of the bun bridge (kind = "exit")
TermOnOutput(w, p, kind) ==
    LET sid == w.procs[p].sessionId
    IN IF kind = "data" THEN TermBroadcast(w, sid, "terminal-data")
       ELSE IF kind = "error" THEN TermBroadcast(w, sid, "terminal-error")
       ELSE LET w1 == TermBroadcast(w, sid, "terminal-exit")
            IN [w1 EXCEPT !.c.sessions = [x \in DOMAIN @ \ {sid} |-> @[x]]]

TermNow == TermWorld(term, termProcs, <<>>, {}, FALSE)

\* the record of the handler that ran: who called it with which session id,
\* whether the id had a session, what the handler did, the sessions it removed
\* (closed) and the sessions that lost a listener and stay (left); for an
\* event of a process, the process
TermRan(op, ws, sid, w) ==
    [op |-> op, ws |-> ws, sessionId |-> sid, known |-> sid \in DOMAIN term.sessions,
     proc |-> 0,
     sent |-> w.sent, touched |-> w.touched, threw |-> w.threw, tried |-> w.tried,
     spawned |-> Len(w.procs) - Len(termProcs),
     closed |-> DOMAIN term.sessions \ DOMAIN w.c.sessions,
     left |-> {x \in DOMAIN term.sessions \cap DOMAIN w.c.sessions :
                  /\ SeqToSet(w.c.sessions[x].listeners) # SeqToSet(term.sessions[x].listeners)
                  /\ SeqToSet(w.c.sessions[x].listeners)
                         \subseteq SeqToSet(term.sessions[x].listeners)}]

TermBecomes(op, ws, sid, w) ==
    /\ Len(w.procs) <= MaxTermProcs
    /\ term' = w.c
    /\ termProcs' = w.procs
    /\ termLast' = TermRan(op, ws, sid, w)
    /\ UNCHANGED nonTermVars

\* the registry after a handler of an event of process p
TermBecomesAfter(op, p, w) ==
    /\ term' = w.c
    /\ termProcs' = w.procs
    /\ termLast' = [TermRan(op, NoConn, termProcs[p].sessionId, w) EXCEPT !.proc = p]
    /\ UNCHANGED nonTermVars

TermInitialFields(bun, python) ==
    [sessions |-> [x \in {} |-> 0], bunPtyAvailable |-> bun, pythonPtyAvailable |-> python]

TermNoHandler ==
    [op |-> "new", ws |-> NoConn, sessionId |-> NoSession, known |-> FALSE,
     proc |-> 0, sent |-> <<>>, touched |-> {}, threw |-> FALSE, tried |-> <<>>,
     spawned |-> 0,
     closed |-> {}, left |-> {}]

\* after the constructor, which has probed which runtimes there are
InitTerm ==
    /\ \E bun \in BOOLEAN, python \in BOOLEAN : term = TermInitialFields(bun, python)
    /\ termProcs = <<>>
    /\ termLast = TermNoHandler

\* the registry of a specification that does not use it
IdleTerm ==
    /\ term = TermInitialFields(FALSE, FALSE)
    /\ termProcs = <<>>
    /\ termLast = TermNoHandler

\* the inputs that the call does not consult are held at FALSE
CreateOrAttach(ws, sid, launch, out, fails) ==
    /\ out.bun => ~TermHas(TermNow, sid) /\ term.bunPtyAvailable
    /\ out.python => ~TermHas(TermNow, sid) /\ term.pythonPtyAvailable
    /\ out.pipe => ~TermHas(TermNow, sid)
    /\ fails => TermHas(TermNow, sid) /\ term.sessions[sid].mode = "bun-pty"
    /\ TermBecomes("createOrAttach", ws, sid, TermCreateOrAttach(TermNow, ws, sid, launch, out, fails))

Write(sid, fails) ==
    /\ fails => TermHas(TermNow, sid)
    /\ TermBecomes("write", NoConn, sid, TermWrite(TermNow, sid, fails))

\* the terminal-resize case of _handleViewMessage(ws, message)
Resize(ws, sid, fails) ==
    /\ fails => TermHas(TermNow, sid) /\ term.sessions[sid].mode = "bun-pty"
    /\ TermBecomes("resize", ws, sid, TermResize(TermNow, sid, fails))

Close(sid) ==
    /\ TermBecomes("close", NoConn, sid, TermClose(TermNow, sid))

RemoveListener(ws) ==
    /\ TermBecomes("removeListener", ws, NoSession,
                   TermRemoveListener(TermNow, ws, DOMAIN term.sessions))

Dispose ==
    /\ TermBecomes("dispose", NoConn, NoSession, TermDispose(TermNow, DOMAIN term.sessions))

TermProcExit(p) ==
    /\ termProcs[p].state # "exited"
    /\ TermBecomesAfter("exit", p, TermOnExit(TermNow, p))

TermProcOutput(p, kind) ==
    /\ termProcs[p].state # "exited"
    /\ kind = "exit" => termProcs[p].mode = "bun-pty"
    /\ TermBecomesAfter(IF kind = "exit" THEN "exit-line" ELSE kind, p,
                        TermOnOutput(TermNow, p, kind))

NextTerm ==
    \/ \E ws \in TermConns, sid \in TermSessionIds, launch \in TermLaunches,
          out \in TermSpawnOutcomes, fails \in BOOLEAN :
              CreateOrAttach(ws, sid, launch, out, fails)
    \/ \E sid \in TermSessionIds, fails \in BOOLEAN : Write(sid, fails)
    \/ \E ws \in TermConns, sid \in TermSessionIds, fails \in BOOLEAN : Resize(ws, sid, fails)
    \/ \E sid \in TermSessionIds : Close(sid)
    \/ \E ws \in TermConns : RemoveListener(ws)
    \/ Dispose
    \/ \E p \in DOMAIN termProcs : TermProcExit(p)
    \/ \E p \in DOMAIN termProcs, kind \in {"data", "error", "exit"} : TermProcOutput(p, kind)

----------------------------------------------------------------------------
(* The Router's message buckets and the dispatch of _handleViewMessage     *)
(* (src/src/message-router.mjs)                                            *)

FULL_HANDLING_BUCKET ==
    << "ready", "fetch", "cancel-fetch", "fetch-stream", "cancel-fetch-stream",
       "mcp-request", "mcp-response", "mcp-notification", "terminal-create",
       "terminal-attach", "terminal-write", "terminal-resize", "terminal-close",
       "persisted-atom-sync-request", "persisted-atom-update", "persisted-atom-reset",
       "shared-object-subscribe", "shared-object-set", "shared-object-unsubscribe",
       "thread-archived", "thread-unarchived", "archive-thread", "unarchive-thread",
       "thread-stream-state-changed", "thread-overlay-proxy-start-turn-request",
       "thread-overlay-proxy-start-turn-response",
       "thread-overlay-proxy-interrupt-request",
       "thread-overlay-proxy-interrupt-response", "worker-request",
       "worker-request-cancel", "set-telemetry-user", "view-focused" >>

BROWSER_EQUIVALENT_BUCKET ==
    << "open-in-browser", "show-diff", "show-plan-summary", "navigate-in-new-editor-tab" >>

GRACEFUL_UNSUPPORTED_BUCKET ==
    << "install-wsl", "install-app-update", "open-extension-settings",
       "open-vscode-command", "open-keyboard-shortcuts", "open-debug-window",
       "electron-request-microphone-permission" >>

NATIVE_UNSUPPORTED == SeqToSet(GRACEFUL_UNSUPPORTED_BUCKET)

\* the case labels of the switch of _handleViewMessage whose branch does
\* something for the message
RouterHandlingCases ==
    { "ready", "electron-window-focus-request", "log-message", "fetch", "cancel-fetch",
      "fetch-stream", "cancel-fetch-stream", "mcp-request", "mcp-response",
      "mcp-notification", "terminal-create", "terminal-attach", "terminal-write",
      "terminal-resize", "terminal-close", "persisted-atom-sync-request",
      "persisted-atom-update", "persisted-atom-reset", "shared-object-subscribe",
      "shared-object-set", "shared-object-unsubscribe", "archive-thread",
      "unarchive-thread", "thread-overlay-proxy-start-turn-request",
      "thread-overlay-proxy-interrupt-request", "electron-onboarding-skip-workspace",
      "electron-update-workspace-root-options", "electron-set-active-workspace-root",
      "worker-request", "worker-request-cancel", "open-in-browser", "show-diff" }

\* the case labels whose branch only returns
RouterIgnoringCases ==
    { "thread-archived", "thread-unarchived", "thread-stream-state-changed",
      "thread-overlay-proxy-start-turn-response",
      "thread-overlay-proxy-interrupt-response", "set-telemetry-user", "view-focused",
      "show-plan-summary", "navigate-in-new-editor-tab", "electron-set-badge-count",
      "power-save-blocker-set", "desktop-notification-show", "desktop-notification-hide",
      "show-context-menu", "inbox-item-set-read-state", "codex-app-server-restart",
      "open-thread-overlay", "electron-set-window-mode",
      "electron-pick-workspace-root-option", "electron-app-state-snapshot-trigger",
      "update-diff-if-open" }

\* a switch whose default case does not consult NATIVE_UNSUPPORTED
RouterDispatchUnlisted(type) ==
    IF type \in RouterHandlingCases THEN "handled"
    ELSE IF type \in RouterIgnoringCases THEN "ignored"
    ELSE "unsupported_message_type"

\* the branch of the switch of _handleViewMessage that a type is taken to
RouterDispatch(type) ==
    IF type \in RouterHandlingCases THEN "handled"
    ELSE IF type \in RouterIgnoringCases THEN "ignored"
    ELSE IF type \in NATIVE_UNSUPPORTED THEN "unsupported_native_action"
    ELSE "unsupported_message_type"

\* the types a connection sends: those the Router names, and one it does not
RouterMessageTypes ==
    RouterHandlingCases \cup RouterIgnoringCases \cup SeqToSet(FULL_HANDLING_BUCKET)
        \cup SeqToSet(BROWSER_EQUIVALENT_BUCKET) \cup SeqToSet(GRACEFUL_UNSUPPORTED_BUCKET)
        \cup {"not-a-renderer-message"}

RouterConns == {"ws1", "ws2"}

RouterNoMessage == [ws |-> NoConn, type |-> "none", outcome |-> "none"]

----------------------------------------------------------------------------
(* MessageRouter.handleEnvelope and GitWorkerBridge                        *)
(* (src/src/bun-pty-bridge.mjs)                                            *)
(*                                                                         *)
(* A handler of the Router is an operator on a world: the fields of the    *)
(* Router and of its GitWorkerBridge, the calls that wait at an await that *)
(* yields to the event loop (posting: postMessage calls that await the     *)
(* fs.access of isAvailable; fetching: _handleFetch calls that await their *)
(* fetch), the requests the worker holds, each with the connection that    *)
(* sent it (inbox), the envelopes the                                      *)
(* handler sent (sent), and whether a sub-handler threw (threw) and        *)
(* whether the promise of handleEnvelope rejected (rejected).              *)
(* The server registers a connection when it opens and unregisters it on   *)
(* its close and error events, so that ws.readyState is 1 from             *)
(* registerClient until the first unregisterClient.                        *)

\* the request ids of worker requests, the keys of shared objects, the
\* request ids of fetches and the session ids that connections use
GitRequestIds == {1}
RouterKeys == {"k1"}
RouterFetchIds == {"f1"}
RouterSessionIds == {"s1"}

NoKey == "none"

\* a payload: its type, payload.request.id, payload.id, and its key,
\* requestId or sessionId (arg); a missing id is NoId, which is falsy
RouterPayload(type, request, id, arg) ==
    [type |-> type, request |-> request, id |-> id, arg |-> arg]

\* an envelope without payload
RouterNoPayload == RouterPayload("none", NoId, NoId, NoKey)

RouterEnvelope(type, workerId, payload) ==
    [type |-> type, workerId |-> workerId, payload |-> payload]

\* the payloads of worker requests and of their cancellations
GitPayloads ==
    {RouterPayload("worker-request", id, NoId, NoKey) : id \in GitRequestIds \cup {NoId}}
        \cup {RouterPayload("worker-request-cancel", NoId, id, NoKey) :
                  id \in GitRequestIds \cup {NoId}}

\* the payloads of the view messages that connections send
RouterViewPayloads ==
    GitPayloads
        \cup {RouterPayload(type, NoId, NoId, key) :
                  type \in {"shared-object-subscribe", "shared-object-unsubscribe"},
                  key \in RouterKeys}
        \cup {RouterPayload(type, NoId, NoId, rid) :
                  type \in {"fetch", "cancel-fetch"}, rid \in RouterFetchIds}
        \cup {RouterPayload("terminal-create", NoId, NoId, sid) : sid \in RouterSessionIds}

\* the envelopes that connections send to reach the worker bridge, and two
\* that the Router does not know; workerId "" stands for an envelope
\* without workerId
RouterWorkerEnvelopes ==
    {RouterEnvelope("view-message", "", p) : p \in GitPayloads}
        \cup {RouterEnvelope("worker-message", "", p) :
                  p \in {RouterPayload("worker-request", id, NoId, NoKey) :
                             id \in GitRequestIds} \cup {RouterNoPayload}}
        \cup {RouterEnvelope("worker-message", "other", RouterNoPayload),
              RouterEnvelope("view-message", "",
                             RouterPayload("not-a-renderer-message", NoId, NoId, NoKey)),
              RouterEnvelope("not-an-envelope-type", "", RouterNoPayload)}

\* the envelopes that put a connection into a registry of the Router
RouterRegistryEnvelopes ==
    {RouterEnvelope("view-message", "", p) :
         p \in RouterViewPayloads \ {q \in GitPayloads : q.type # "worker-request"
                                                        \/ q.request = NoId}}

\* the view messages of the types that the Router declines, among a few
\* that fill its registries
RouterUnsupportedEnvelopes ==
    {RouterEnvelope("view-message", "", RouterPayload(type, NoId, NoId, NoKey)) :
         type \in NATIVE_UNSUPPORTED}
        \cup {RouterEnvelope("view-message", "", p) :
                  p \in {RouterPayload("shared-object-subscribe", NoId, NoId, key) :
                             key \in RouterKeys}
                        \cup {RouterPayload("fetch", NoId, NoId, rid) : rid \in RouterFetchIds}
                        \cup {RouterPayload("worker-request", id, NoId, NoKey) :
                                  id \in GitRequestIds}}

\* an envelope given to ws.send: the connection, the type of the envelope,
\* the code of a bridge-error or the type of the payload, the id of a
\* worker response and its error
RouterMsg(to, envelope, code, id, error) ==
    [to |-> to, envelope |-> envelope, code |-> code, id |-> id, error |-> error]

\* sendBridgeEnvelope(ws, envelope)
RouterSendBridgeEnvelope(w, ws, envelope, code, id, error) ==
    IF ws = NoConn \/ ws \in w.closed THEN w
    ELSE [w EXCEPT !.sent = Append(@, RouterMsg(ws, envelope, code, id, error))]

\* sendBridgeError(ws, code, message)
RouterSendBridgeError(w, ws, code) ==
    RouterSendBridgeEnvelope(w, ws, "bridge-error", code, NoId, "none")

\* sendMainMessage(ws, payload)
RouterSendMainMessage(w, ws, type) ==
    RouterSendBridgeEnvelope(w, ws, "main-message", type, NoId, "none")

\* sendWorkerEvent(ws, workerId, payload)
RouterSendWorkerEvent(w, ws, payload) ==
    RouterSendBridgeEnvelope(w, ws, "worker-event", payload.type, payload.id, payload.error)

\* broadcastWorkerEvent(workerId, payload): to each connection of clients
RECURSIVE RouterBroadcastWorkerEvent(_, _, _)
RouterBroadcastWorkerEvent(w, payload, todo) ==
    IF todo = {} THEN w
    ELSE LET ws == CHOOSE x \in todo : TRUE
         IN RouterBroadcastWorkerEvent(RouterSendWorkerEvent(w, ws, payload), payload,
                                       todo \ {ws})

\* the sendWorkerEvent that the Router's constructor gives to the bridge
GitSendWorkerEvent(w, ws, payload) ==
    IF ws # NoConn THEN RouterSendWorkerEvent(w, ws, payload)
    ELSE RouterBroadcastWorkerEvent(w, payload, w.clients)

\* a message of the worker: its type, message.response.id and the error
GitWorkerMessage(type, id, error) == [type |-> type, id |-> id, error |-> error]

\* Map.prototype.set
MapSet(m, k, v) == [x \in DOMAIN m \cup {k} |-> IF x = k THEN v ELSE m[x]]

\* an answer of the unavailable worker that goes to every connection
GitPostMessageUnavailableToAll(w, ws, payload) ==
    GitSendWorkerEvent(w, NoConn,
        GitWorkerMessage("worker-response",
                         IF payload.request # NoId THEN payload.request ELSE payload.id,
                         "git worker unavailable"))

\* the part of postMessage for a worker that is not available
GitPostMessageUnavailable(w, ws, payload) ==
    GitSendWorkerEvent(w, ws,
        GitWorkerMessage("worker-response",
                         IF payload.request # NoId THEN payload.request ELSE payload.id,
                         "git worker unavailable"))

\* what a sub-handler that threw leaves: _handleViewMessage catches and
\* answers, handleEnvelope awaits _handleWorkerMessage without a catch
RouterThrows(w, ws, via) ==
    IF via = "view-message"
        THEN RouterSendBridgeError([w EXCEPT !.threw = TRUE], ws, "message_handler_error")
        ELSE [w EXCEPT !.threw = TRUE, !.rejected = TRUE]

\* the part of postMessage after an isAvailable() that returned true;
\* workerFails: the Worker constructor throws
GitPostMessageAvailable(w, ws, payload, via, workerFails) ==
    IF w.git.worker = FALSE /\ workerFails THEN RouterThrows(w, ws, via)
    ELSE LET w1 == [w EXCEPT !.git.worker = TRUE]
         IN IF payload = RouterNoPayload THEN RouterThrows(w1, ws, via)
            ELSE LET w2 == IF payload.type = "worker-request" /\ payload.request # NoId
                               THEN [w1 EXCEPT !.git.pendingByRequestId =
                                                   MapSet(@, payload.request, ws)]
                               ELSE w1
                     w3 == IF payload.type = "worker-request-cancel" /\ payload.id # NoId
                               THEN [w2 EXCEPT !.git.pendingByRequestId =
                                                   MapDelete(@, payload.id)]
                               ELSE w2
                 IN IF payload.type = "worker-request"
                        THEN [w3 EXCEPT !.inbox = @ \cup {[from |-> ws,
                                                             id |-> payload.request]}]
                        ELSE w3

\* postMessage(ws, payload) up to its await: isAvailable() returns false
\* without leaving the turn when there is no workerPath, and awaits
\* fs.access otherwise
GitPostMessage(w, ws, payload, via) ==
    IF ~w.git.workerPath THEN GitPostMessageUnavailable(w, ws, payload)
    ELSE [w EXCEPT !.posting = @ \cup {[ws |-> ws, payload |-> payload, via |-> via]}]

\* postMessage from the await on: accessible is what fs.access found
GitPostMessageResume(w, call, accessible, workerFails) ==
    LET w1 == [w EXCEPT !.posting = @ \ {call}]
    IN IF ~accessible THEN GitPostMessageUnavailable(w1, call.ws, call.payload)
       ELSE GitPostMessageAvailable(w1, call.ws, call.payload, call.via, workerFails)

\* removeClient(ws)
GitRemoveClient(w, ws) ==
    [w EXCEPT !.git.pendingByRequestId =
                  [x \in {y \in DOMAIN @ : @[y] # ws} |-> @[x]]]

\* a "message" handler that drops what has no pending owner
GitOnMessageDropUnmatched(w, message) ==
    IF /\ message.type = "worker-response"
       /\ message.id # NoId
       /\ message.id \in DOMAIN w.git.pendingByRequestId
        THEN LET owner == w.git.pendingByRequestId[message.id]
                 w1 == [w EXCEPT !.git.pendingByRequestId = MapDelete(@, message.id)]
             IN GitSendWorkerEvent(w1, owner, message)
        ELSE w

\* the "message" handler of the worker
GitOnMessage(w, message) ==
    IF /\ message.type = "worker-response"
       /\ message.id # NoId
       /\ message.id \in DOMAIN w.git.pendingByRequestId
        THEN LET owner == w.git.pendingByRequestId[message.id]
                 w1 == [w EXCEPT !.git.pendingByRequestId = MapDelete(@, message.id)]
             IN GitSendWorkerEvent(w1, owner, message)
        ELSE GitSendWorkerEvent(w, NoConn, message)

\* the "exit" handler of the worker; the requests it held are lost
GitOnExit(w) == [w EXCEPT !.git.worker = FALSE, !.inbox = {}]

\* _handleWorkerMessage(ws, workerId, payload)
RouterHandleWorkerMessage(w, ws, workerId, payload, via) ==
    IF workerId # "git" THEN RouterSendBridgeError(w, ws, "unsupported_worker")
    ELSE GitPostMessage(w, ws, payload, via)

\* _subscribeSharedObject(ws, key)
RouterSubscribeSharedObject(w, ws, key) ==
    LET subscribers == IF key \in DOMAIN w.subs THEN w.subs[key] ELSE {}
        w1 == [w EXCEPT !.subs = MapSet(@, key, subscribers \cup {ws})]
    IN RouterSendMainMessage(w1, ws, "shared-object-updated")

\* _unsubscribeSharedObject(ws, key)
RouterUnsubscribeSharedObject(w, ws, key) ==
    IF key \notin DOMAIN w.subs THEN w
    ELSE IF w.subs[key] \ {ws} = {} THEN [w EXCEPT !.subs = MapDelete(@, key)]
    ELSE [w EXCEPT !.subs = MapSet(@, key, w.subs[key] \ {ws})]

\* _handleFetch(ws, message) for a URL that resolves, up to the await of fetch
RouterHandleFetch(w, ws, requestId) ==
    [w EXCEPT !.controllers = MapSet(@, requestId, ws),
              !.fetching = @ \cup {[ws |-> ws, requestId |-> requestId, aborted |-> FALSE]}]

\* _handleFetch from the await on: the response is sent or, when the fetch
\* rejects (as it does once aborted), the error is, and the finally clause
\* deletes the controller of the request id
RouterFetchSettled(w, call) ==
    LET w1 == RouterSendMainMessage([w EXCEPT !.fetching = @ \ {call}], call.ws,
                                    "fetch-response")
    IN [w1 EXCEPT !.controllers = MapDelete(@, call.requestId)]

\* _handleCancelFetch(message): controller.abort() aborts the fetch of the
\* call that set the controller, which is the last to have set one under
\* this request id
RouterHandleCancelFetch(w, requestId) ==
    IF requestId \notin DOMAIN w.controllers THEN w
    ELSE LET owner == w.controllers[requestId]
         IN [w EXCEPT !.controllers = MapDelete(@, requestId),
                      !.fetching = {IF call.ws = owner /\ call.requestId = requestId
                                        THEN [call EXCEPT !.aborted = TRUE] ELSE call :
                                    call \in @}]

\* _handleViewMessage(ws, message), but for the terminal messages
RouterHandleViewMessage(w, ws, message) ==
    IF message = RouterNoPayload THEN RouterSendBridgeError(w, ws, "invalid_view_message")
    ELSE LET outcome == RouterDispatch(message.type)
         IN IF outcome \in {"unsupported_native_action", "unsupported_message_type"}
                THEN RouterSendBridgeError(w, ws, outcome)
            ELSE IF outcome = "ignored" THEN w
            ELSE IF message.type = "shared-object-subscribe"
                THEN RouterSubscribeSharedObject(w, ws, message.arg)
            ELSE IF message.type = "shared-object-unsubscribe"
                THEN RouterUnsubscribeSharedObject(w, ws, message.arg)
            ELSE IF message.type = "fetch" THEN RouterHandleFetch(w, ws, message.arg)
            ELSE IF message.type = "cancel-fetch"
                THEN RouterHandleCancelFetch(w, message.arg)
            ELSE IF message.type \in {"worker-request", "worker-request-cancel"}
                THEN RouterHandleWorkerMessage(w, ws, "git", message, "view-message")
            ELSE w

\* a handleEnvelope whose switch has no default case
RouterHandleEnvelopeSilent(w, ws, envelope) ==
    IF envelope.type = "view-message"
        THEN RouterHandleViewMessage(w, ws, envelope.payload)
    ELSE IF envelope.type = "worker-message"
        THEN RouterHandleWorkerMessage(w, ws,
                 IF envelope.workerId # "" THEN envelope.workerId ELSE "git",
                 envelope.payload, "worker-message")
    ELSE w

\* handleEnvelope(ws, envelope)
RouterHandleEnvelope(w, ws, envelope) ==
    IF envelope.type = "view-message"
        THEN RouterHandleViewMessage(w, ws, envelope.payload)
    ELSE IF envelope.type = "worker-message"
        THEN RouterHandleWorkerMessage(w, ws,
                 IF envelope.workerId # "" THEN envelope.workerId ELSE "git",
                 envelope.payload, "worker-message")
    ELSE RouterSendBridgeError(w, ws, "unsupported_envelope_type")

\* the envelopes that handleEnvelope gives to gitWorker.postMessage
RouterReachesWorker(envelope) ==
    \/ envelope.type = "worker-message" /\ envelope.workerId \in {"", "git"}
    \/ /\ envelope.type = "view-message"
       /\ envelope.payload.type \in {"worker-request", "worker-request-cancel"}

\* unregisterClient(ws), but for terminals.removeListener
RouterUnregisterClient(w, ws) ==
    LET w1 == GitRemoveClient([w EXCEPT !.clients = @ \ {ws}, !.closed = @ \cup {ws}], ws)
    IN [w1 EXCEPT !.subs = [k \in DOMAIN @ |-> @[k] \ {ws}]]

\* the Router and what is with it, before a handler runs
RouterNow ==
    [clients |-> routerClients, closed |-> routerClosed, subs |-> sharedObjectSubscribers,
     controllers |-> fetchControllers, fetching |-> routerFetching, git |-> gitWorker,
     posting |-> gitPosting, inbox |-> workerInbox, sent |-> <<>>, threw |-> FALSE,
     rejected |-> FALSE]

\* the record of the handler that ran: the connection and the envelope or
\* message it was called with, the request that a worker message answers,
\* what fs.access found, and what it did
RouterRan(op, ws, envelope, request, accessible, w) ==
    [op |-> op, ws |-> ws, envelope |-> envelope, request |-> request,
     accessible |-> accessible, sent |-> w.sent, threw |-> w.threw,
     rejected |-> w.rejected]

RouterBecomes(w) ==
    /\ Cardinality(w.posting) <= MaxGitPosting
    /\ Cardinality(w.inbox) <= MaxWorkerInbox
    /\ routerClients' = w.clients
    /\ routerClosed' = w.closed
    /\ sharedObjectSubscribers' = w.subs
    /\ fetchControllers' = w.controllers
    /\ routerFetching' = w.fetching
    /\ gitWorker' = w.git
    /\ gitPosting' = w.posting
    /\ workerInbox' = w.inbox

RouterNoEnvelope == RouterEnvelope("none", "", RouterNoPayload)

RouterNoRequest == [from |-> NoConn, id |-> NoId]

RouterNoHandler ==
    [op |-> "new", ws |-> NoConn, envelope |-> RouterNoEnvelope,
     request |-> RouterNoRequest, accessible |-> FALSE, sent |-> <<>>,
     threw |-> FALSE, rejected |-> FALSE]

RouterInitialFields(workerPath) ==
    /\ routerClients = {}
    /\ routerLast = RouterNoMessage
    /\ routerClosed = {}
    /\ sharedObjectSubscribers = [k \in {} |-> {}]
    /\ fetchControllers = [r \in {} |-> NoConn]
    /\ routerFetching = {}
    /\ gitWorker = [workerPath |-> workerPath, worker |-> FALSE,
                    pendingByRequestId |-> [x \in {} |-> NoConn]]
    /\ gitPosting = {}
    /\ workerInbox = {}
    /\ envLast = RouterNoHandler

\* after the constructor, which was or was not given a workerPath
InitRouter == \E workerPath \in BOOLEAN : RouterInitialFields(workerPath)

\* the router of a specification that does not use it
IdleRouter == RouterInitialFields(FALSE)

\* registerClient(ws), on the "connection" event of a new connection
RegisterClient(ws) ==
    /\ ws \notin routerClients
    /\ ws \notin routerClosed
    /\ routerClients' = routerClients \cup {ws}
    /\ envLast' = RouterRan("registerClient", ws, RouterNoEnvelope, RouterNoRequest, FALSE,
                            RouterNow)
    /\ UNCHANGED <<routerLast, routerClosed, sharedObjectSubscribers, fetchControllers,
                   routerFetching, gitWorker, gitPosting, workerInbox, nonRouterVars>>

\* unregisterClient(ws), on the "close" and "error" events of a connection
UnregisterClient(ws) ==
    /\ ws \in routerClients \cup routerClosed
    /\ LET w == RouterUnregisterClient(RouterNow, ws)
           t == TermRemoveListener(TermNow, ws, DOMAIN term.sessions)
       IN /\ RouterBecomes(w)
          /\ envLast' = RouterRan("unregisterClient", ws, RouterNoEnvelope,
                                  RouterNoRequest, FALSE, w)
          /\ term' = t.c
          /\ termProcs' = t.procs
    /\ UNCHANGED <<routerLast, termLast, nonRouterTermVars>>

\* handleEnvelope(ws, {type: "view-message", payload: {type}}): the case of
\* the switch that the type takes
HandleViewMessage(ws, type) ==
    /\ ws \in routerClients
    /\ routerLast' = [ws |-> ws, type |-> type, outcome |-> RouterDispatch(type)]
    /\ UNCHANGED <<routerClients, routerClosed, sharedObjectSubscribers, fetchControllers,
                   routerFetching, gitWorker, gitPosting, workerInbox, envLast,
                   nonRouterVars>>

\* handleEnvelope(ws, envelope) up to its first await that yields; out: the
\* spawns that fail when the envelope creates a terminal session. Of the
\* calls that wait, no two are for the same connection and message.
HandleEnvelope(ws, envelope, out) ==
    /\ ws \in routerClients
    /\ LET terminal == envelope.type = "view-message"
                           /\ envelope.payload.type = "terminal-create"
           sid == envelope.payload.arg
           w == RouterHandleEnvelope(RouterNow, ws, envelope)
           t == IF terminal THEN TermCreateOrAttach(TermNow, ws, sid, "l1", out, FALSE)
                ELSE TermNow
       IN /\ out.bun => terminal /\ ~TermHas(TermNow, sid) /\ term.bunPtyAvailable
          /\ out.python => terminal /\ ~TermHas(TermNow, sid) /\ term.pythonPtyAvailable
          /\ out.pipe => terminal /\ ~TermHas(TermNow, sid)
          /\ envelope.type = "view-message" /\ envelope.payload.type = "fetch"
                 => \A call \in routerFetching : call.ws # ws \/ call.requestId # sid
          /\ RouterReachesWorker(envelope)
                 => [ws |-> ws, payload |-> envelope.payload, via |-> envelope.type]
                        \notin gitPosting
          /\ Len(t.procs) <= MaxTermProcs
          /\ RouterBecomes(w)
          /\ envLast' = RouterRan("handleEnvelope", ws, envelope, RouterNoRequest, FALSE, w)
          /\ term' = t.c
          /\ termProcs' = t.procs
    /\ UNCHANGED <<routerLast, termLast, nonRouterTermVars>>

\* a postMessage call goes on after its await of isAvailable()
PostMessageResume(call, accessible, workerFails) ==
    /\ call \in gitPosting
    /\ workerFails => accessible /\ gitWorker.worker = FALSE
    /\ LET w == GitPostMessageResume(RouterNow, call, accessible, workerFails)
       IN /\ RouterBecomes(w)
          /\ envLast' = RouterRan("postMessage", call.ws,
                                  RouterEnvelope(call.via, "git", call.payload),
                                  RouterNoRequest, accessible, w)
    /\ UNCHANGED <<routerLast, nonRouterVars>>

\* a _handleFetch call goes on after its await of fetch
FetchSettled(call) ==
    /\ call \in routerFetching
    /\ LET w == RouterFetchSettled(RouterNow, call)
       IN /\ RouterBecomes(w)
          /\ envLast' = RouterRan("fetchSettled", call.ws, RouterNoEnvelope,
                                  RouterNoRequest, FALSE, w)
    /\ UNCHANGED <<routerLast, nonRouterVars>>

\* the worker answers a request of those it holds
WorkerResponse(request) ==
    /\ request \in workerInbox
    /\ LET w == GitOnMessage([RouterNow EXCEPT !.inbox = @ \ {request}],
                             GitWorkerMessage("worker-response", request.id, "none"))
       IN /\ RouterBecomes(w)
          /\ envLast' = RouterRan("workerMessage", NoConn, RouterNoEnvelope, request,
                                  FALSE, w)
    /\ UNCHANGED <<routerLast, nonRouterVars>>

\* the worker emits a message that is not a response
WorkerEvent ==
    /\ gitWorker.worker
    /\ LET w == GitOnMessage(RouterNow, GitWorkerMessage("worker-event", NoId, "none"))
       IN /\ RouterBecomes(w)
          /\ envLast' = RouterRan("workerEvent", NoConn, RouterNoEnvelope, RouterNoRequest,
                                  FALSE, w)
    /\ UNCHANGED <<routerLast, nonRouterVars>>

\* the worker exits
WorkerExit ==
    /\ gitWorker.worker
    /\ LET w == GitOnExit(RouterNow)
       IN /\ RouterBecomes(w)
          /\ envLast' = RouterRan("workerExit", NoConn, RouterNoEnvelope, RouterNoRequest,
                                  FALSE, w)
    /\ UNCHANGED <<routerLast, nonRouterVars>>

NextRouter ==
    \/ \E ws \in RouterConns : RegisterClient(ws)
    \/ \E ws \in RouterConns : UnregisterClient(ws)
    \/ \E ws \in RouterConns, type \in RouterMessageTypes : HandleViewMessage(ws, type)

\* the Router and its worker bridge
NextWorker ==
    \/ \E ws \in RouterConns : RegisterClient(ws)
    \/ \E ws \in RouterConns : UnregisterClient(ws)
    \/ \E ws \in RouterConns, envelope \in RouterWorkerEnvelopes, out \in TermSpawnOutcomes :
           HandleEnvelope(ws, envelope, out)
    \/ \E call \in gitPosting, accessible \in BOOLEAN, workerFails \in BOOLEAN :
           PostMessageResume(call, accessible, workerFails)
    \/ \E request \in workerInbox : WorkerResponse(request)
    \/ WorkerEvent
    \/ WorkerExit

\* the Router and the view messages that it declines
NextUnsupported ==
    \/ \E ws \in RouterConns : RegisterClient(ws)
    \/ \E ws \in RouterConns : UnregisterClient(ws)
    \/ \E ws \in RouterConns, envelope \in RouterUnsupportedEnvelopes,
          out \in TermSpawnOutcomes :
           HandleEnvelope(ws, envelope, out)
    \/ \E call \in gitPosting, accessible \in BOOLEAN, workerFails \in BOOLEAN :
           PostMessageResume(call, accessible, workerFails)
    \/ \E call \in routerFetching : FetchSettled(call)
    \/ \E request \in workerInbox : WorkerResponse(request)

\* the Router and its registries of connections
NextRegistries ==
    \/ \E ws \in RouterConns : RegisterClient(ws)
    \/ \E ws \in RouterConns : UnregisterClient(ws)
    \/ \E ws \in RouterConns, envelope \in RouterRegistryEnvelopes,
          out \in TermSpawnOutcomes :
           HandleEnvelope(ws, envelope, out)
    \/ \E call \in gitPosting, accessible \in BOOLEAN, workerFails \in BOOLEAN :
           PostMessageResume(call, accessible, workerFails)
    \/ \E call \in routerFetching : FetchSettled(call)
    \/ \E request \in workerInbox : WorkerResponse(request)

----------------------------------------------------------------------------
(* MessageRouter's saved workspace roots and the thread/list filter         *)
(* (src/src/message-router.mjs). A path is the sequence of its characters; *)
(* a value is a record that says whether it is a string, and which.        *)

PathChars == {"/", "a", " "}

Paths == UNION {[1..n -> PathChars] : n \in 0..MaxPathLen}

\* a string value, and a value that is no string (null, undefined, a number)
PathValue(path) == [string |-> TRUE, path |-> path]
NoPathValue == [string |-> FALSE, path |-> <<>>]

PathValues == {PathValue(path) : path \in Paths} \cup {NoPathValue}

\* String.prototype.trim
RECURSIVE PathTrimStart(_)
PathTrimStart(path) ==
    IF path # <<>> /\ Head(path) = " " THEN PathTrimStart(Tail(path)) ELSE path

RECURSIVE PathTrimEnd(_)
PathTrimEnd(path) ==
    IF path # <<>> /\ path[Len(path)] = " " THEN PathTrimEnd(SubSeq(path, 1, Len(path) - 1))
    ELSE path

PathTrim(path) == PathTrimEnd(PathTrimStart(path))

\* replace(/\/+$/, "")
RECURSIVE PathStripSlashes(_)
PathStripSlashes(path) ==
    IF path # <<>> /\ path[Len(path)] = "/"
        THEN PathStripSlashes(SubSeq(path, 1, Len(path) - 1))
    ELSE path

\* String.prototype.startsWith
PathStartsWith(path, prefix) ==
    Len(prefix) <= Len(path) /\ SubSeq(path, 1, Len(prefix)) = prefix

\* _normalizeWorkspaceRoot(root)
NormalizeWorkspaceRoot(value) ==
    IF ~value.string THEN NoPathValue
    ELSE IF PathTrim(value.path) = <<>> THEN NoPathValue
    ELSE PathValue(PathStripSlashes(PathTrim(value.path)))

\* Boolean(value) of a string or null
PathTruthy(value) == value.string /\ value.path # <<>>

\* values.map((root) => this._normalizeWorkspaceRoot(root)).filter(Boolean)
RECURSIVE NormalizeRoots(_)
NormalizeRoots(values) ==
    IF values = <<>> THEN <<>>
    ELSE LET root == NormalizeWorkspaceRoot(Head(values))
         IN IF PathTruthy(root) THEN <<root.path>> \o NormalizeRoots(Tail(values))
            ELSE NormalizeRoots(Tail(values))

\* [...new Set(paths)]
RECURSIVE PathDedup(_)
PathDedup(paths) ==
    IF paths = <<>> THEN <<>>
    ELSE LET front == PathDedup(SubSeq(paths, 1, Len(paths) - 1))
             last == paths[Len(paths)]
         IN IF \E i \in DOMAIN front : front[i] = last THEN front ELSE Append(front, last)

\* an _isCwdInRoot that takes any path with the root as a prefix
IsCwdInRootByPrefix(cwd, root) == cwd = root \/ PathStartsWith(cwd, root)

\* _isCwdInRoot(cwd, root)
IsCwdInRoot(cwd, root) == cwd = root \/ PathStartsWith(cwd, Append(root, "/"))

\* result.data.filter(...) of _filterThreadListResult
RECURSIVE FilterThreadData(_, _)
FilterThreadData(data, roots) ==
    IF data = <<>> THEN <<>>
    ELSE LET cwd == NormalizeWorkspaceRoot(Head(data).cwd)
             keep == /\ PathTruthy(cwd)
                     /\ \E i \in DOMAIN roots : IsCwdInRoot(cwd.path, roots[i])
         IN (IF keep THEN <<Head(data)>> ELSE <<>>) \o FilterThreadData(Tail(data), roots)

\* _filterThreadListResult(result), with this.workspaceRootOptions.roots
FilterThreadListResult(result, savedRoots) ==
    IF ~result.array THEN result
    ELSE LET normalizedWorkspaceRoots ==
                 NormalizeRoots([i \in DOMAIN savedRoots |-> PathValue(savedRoots[i])])
         IN IF Len(normalizedWorkspaceRoots) = 0 THEN result
            ELSE [result EXCEPT !.data = FilterThreadData(@, normalizedWorkspaceRoots)]

\* process.cwd(): an absolute path in canonical form
WorkingDirectories ==
    {path \in Paths : /\ path # <<>>
                      /\ path[1] = "/"
                      /\ Len(path) > 1 => path[Len(path)] # "/"
                      /\ \A i \in 1..(Len(path) - 1) : ~(path[i] = "/" /\ path[i + 1] = "/")}

\* the root lists of the state file
RootLists == UNION {[1..n -> PathValues] : n \in 0..MaxRoots}

\* the root lists of the messages that change the saved roots: none, one
\* root, and a root to trim beside a value that is no string
RootMessages ==
    {<<>>, <<PathValue(<<"/", "a">>)>>, <<PathValue(<<"a", "/">>), NoPathValue>>}

\* the results of thread/list: data that is no array, or entries that are
\* numbered in their order and have a cwd
ThreadResults ==
    {[array |-> FALSE, data |-> <<>>]}
        \cup UNION {{[array |-> TRUE, data |-> [i \in 1..n |-> [id |-> i, cwd |-> cwds[i]]]] :
                        cwds \in [1..n -> PathValues]} : n \in 0..MaxThreads}

ThreadNoResult == [array |-> FALSE, data |-> <<>>]

ThreadNoHandler == [op |-> "new", result |-> ThreadNoResult, relayed |-> ThreadNoResult]

\* the keys and values of persisted atoms; NoKey is a message without key
PersistKeys == {"k1", "k2"}
PersistValues == {"v1", "v2"}

\* the global state and its write timer, the writes that a handler starts
PersistWorld(atoms, timer, armed) ==
    [atoms |-> atoms, timer |-> timer, armed |-> armed, written |-> <<>>]

\* a _scheduleGlobalStateWrite that arms a timer without clearing the last
ScheduleGlobalStateWriteUncleared(w) ==
    [w EXCEPT !.armed = @ + 1, !.timer = TRUE]

\* _scheduleGlobalStateWrite(): clearTimeout of the timer held, setTimeout
ScheduleGlobalStateWrite(w) ==
    [w EXCEPT !.armed = (IF w.timer THEN @ - 1 ELSE @) + 1, !.timer = TRUE]

\* _buildGlobalStatePayload()
BuildGlobalStatePayload(atoms, roots) == [roots |-> roots, atoms |-> atoms]

\* _writeGlobalStateToDisk() up to its first await: the payload is built
WriteGlobalStateToDisk(w, roots) ==
    [w EXCEPT !.written = Append(@, BuildGlobalStatePayload(w.atoms, roots))]

\* the callback of the write timer
PersistOnTimer(w, roots) ==
    WriteGlobalStateToDisk([w EXCEPT !.timer = FALSE, !.armed = @ - 1], roots)

\* the persisted-atom-update case of _handleViewMessage
PersistAtomUpdate(w, key, value) ==
    IF key = NoKey THEN w
    ELSE ScheduleGlobalStateWrite([w EXCEPT !.atoms = MapSet(@, key, value)])

\* the persisted-atom-reset case of _handleViewMessage
PersistAtomReset(w, key) ==
    IF key = NoKey THEN w
    ELSE ScheduleGlobalStateWrite(
             [w EXCEPT !.atoms = IF key \in DOMAIN @ THEN MapDelete(@, key) ELSE @])

\* the start of MessageRouter.dispose(): the timer held is cleared and its
\* write is started
PersistDispose(w, roots) ==
    IF w.timer
        THEN WriteGlobalStateToDisk([w EXCEPT !.timer = FALSE, !.armed = @ - 1], roots)
    ELSE w

PersistNow == PersistWorld(persistedAtomState, globalStateWriteTimer, persistArmed)

\* the mutations since a write timer last fired or was cleared by dispose;
\* the handlers of those two record the mutations that went before them
PersistPending == IF persistLast.op \in {"timer", "dispose"} THEN 0 ELSE persistLast.burst

\* the same after one more mutation
PersistBurst == IF PersistPending = 0 THEN 1 ELSE 2

PersistBecomes(op, burst, w) ==
    /\ persistedAtomState' = w.atoms
    /\ globalStateWriteTimer' = w.timer
    /\ persistArmed' = w.armed
    /\ persistLast' = [op |-> op, written |-> w.written, burst |-> burst]

PersistNoHandler == [op |-> "new", written |-> <<>>, burst |-> 0]

IdlePersist ==
    /\ persistedAtomState = EmptyMap
    /\ globalStateWriteTimer = FALSE
    /\ persistArmed = 0
    /\ persistLast = PersistNoHandler

\* the constructor: the working directory is the one saved root, and
\* _loadPersistedGlobalState replaces it by the roots of the state file when
\* any of them is left after normalisation
\* cwds, savedLists and activeLists are the working directories and the
\* saved and active roots of the state file that a specification starts from
InitWorkspace(cwds, savedLists, activeLists) ==
    /\ \E cwd \in cwds, saved \in savedLists, active \in activeLists :
           /\ defaultWorkspaceRoot = cwd
           /\ workspaceRootOptions = IF Len(PathDedup(NormalizeRoots(saved))) > 0
                                         THEN PathDedup(NormalizeRoots(saved))
                                         ELSE <<cwd>>
           /\ activeWorkspaceRoots = IF Len(PathDedup(NormalizeRoots(active))) > 0
                                         THEN PathDedup(NormalizeRoots(active))
                                         ELSE <<cwd>>
    /\ threadLast = ThreadNoHandler
    /\ IdlePersist

IdleWorkspace ==
    /\ workspaceRootOptions = << <<"/">> >>
    /\ activeWorkspaceRoots = << <<"/">> >>
    /\ defaultWorkspaceRoot = <<"/">>
    /\ threadLast = ThreadNoHandler
    /\ IdlePersist

\* the electron-update-workspace-root-options case of _handleViewMessage,
\* for a message whose roots are an array
UpdateWorkspaceRootOptions(roots) ==
    /\ threadLast.op = "new"
    /\ workspaceRootOptions' = PathDedup(NormalizeRoots(roots))
    /\ PersistBecomes("workspace", PersistBurst, ScheduleGlobalStateWrite(PersistNow))
    /\ UNCHANGED <<activeWorkspaceRoots, defaultWorkspaceRoot, threadLast,
                   nonWorkspaceVars>>

\* the electron-onboarding-skip-workspace case of _handleViewMessage
OnboardingSkipWorkspace ==
    /\ workspaceRootOptions' = <<defaultWorkspaceRoot>>
    /\ activeWorkspaceRoots' = <<defaultWorkspaceRoot>>
    /\ PersistBecomes("onboarding-skip", PersistBurst, ScheduleGlobalStateWrite(PersistNow))
    /\ UNCHANGED <<defaultWorkspaceRoot, threadLast, nonWorkspaceVars>>

\* the electron-set-active-workspace-root case of _handleViewMessage: a root
\* of which normalization leaves nothing is ignored
SetActiveWorkspaceRoot(root) ==
    LET normalizedRoot == NormalizeWorkspaceRoot(root)
    IN IF ~PathTruthy(normalizedRoot) THEN UNCHANGED <<workspaceVars, nonWorkspaceVars>>
       ELSE /\ activeWorkspaceRoots' = <<normalizedRoot.path>>
            /\ PersistBecomes("set-active", PersistBurst,
                              ScheduleGlobalStateWrite(PersistNow))
            /\ UNCHANGED <<workspaceRootOptions, defaultWorkspaceRoot, threadLast,
                           nonWorkspaceVars>>

\* the keys of the global state that hold the workspace roots
ActiveRootsKey == "active-workspace-roots"
SavedRootsKey == "electron-saved-workspace-roots"

\* the value of a set-global-state for such a key: null, or an array of
\* roots (for the saved roots, an object whose roots are that array)
NoRootList == [array |-> FALSE, roots |-> <<>>]
RootList(roots) == [array |-> TRUE, roots |-> roots]

\* the set-global-state case of _handleVirtualFetch for the key of the
\* active or of the saved roots; the entries of persistedAtomState under
\* these keys are rewritten from the roots by _persistWorkspaceState
SetGlobalStateRoots(key, value) ==
    /\ key \in {ActiveRootsKey, SavedRootsKey}
    /\ LET roots == PathDedup(NormalizeRoots(value.roots))
       IN /\ activeWorkspaceRoots' =
                 IF key = ActiveRootsKey /\ value.array THEN roots
                 ELSE activeWorkspaceRoots
          /\ workspaceRootOptions' =
                 IF key = SavedRootsKey /\ value.array /\ Len(roots) > 0 THEN roots
                 ELSE workspaceRootOptions
    /\ PersistBecomes("set-global-state", PersistBurst,
                      ScheduleGlobalStateWrite(PersistNow))
    /\ UNCHANGED <<defaultWorkspaceRoot, threadLast, nonWorkspaceVars>>

UpdatePersistedAtom(key, value) ==
    /\ PersistBecomes("persisted-atom-update",
                      IF key = NoKey THEN PersistPending ELSE PersistBurst,
                      PersistAtomUpdate(PersistNow, key, value))
    /\ UNCHANGED <<rootVars, threadLast, nonWorkspaceVars>>

ResetPersistedAtom(key) ==
    /\ PersistBecomes("persisted-atom-reset",
                      IF key = NoKey THEN PersistPending ELSE PersistBurst,
                      PersistAtomReset(PersistNow, key))
    /\ UNCHANGED <<rootVars, threadLast, nonWorkspaceVars>>

\* a write timer that is armed fires
WriteTimerFires ==
    /\ persistArmed > 0
    /\ PersistBecomes("timer", PersistPending,
                      PersistOnTimer(PersistNow, workspaceRootOptions))
    /\ UNCHANGED <<rootVars, threadLast, nonWorkspaceVars>>

\* _forwardToAppServer(ws, payload) for a thread/list request with an id,
\* from the answer of the app-server on: the result is filtered and relayed.
\* A behaviour forwards one request: the filter reads the saved roots alone.
ForwardThreadList(result) ==
    /\ threadLast.op = "new"
    /\ threadLast' = [op |-> "thread/list", result |-> result,
                      relayed |-> FilterThreadListResult(result, workspaceRootOptions)]
    /\ UNCHANGED <<rootVars, persistVars, nonWorkspaceVars>>

NextWorkspace ==
    \/ \E roots \in RootMessages : UpdateWorkspaceRootOptions(roots)
    \/ \E result \in ThreadResults : ForwardThreadList(result)

\* the roots of the messages that change the active or the saved roots: a
\* root as normalization leaves it, the same with slashes or blanks around
\* it, roots of which normalization leaves nothing, a value that is no string
RootInputs ==
    {PathValue(<<"a">>), PathValue(<<"a", "/">>), PathValue(<<"a", "/", " ">>),
     PathValue(<<"/", "a", "/">>), PathValue(<<"/">>), PathValue(<<" ">>), NoPathValue}

RootInputLists == UNION {[1..n -> RootInputs] : n \in 0..MaxRoots}

\* the messages that change the workspace roots
NextRoots ==
    \/ \E roots \in RootInputLists : UpdateWorkspaceRootOptions(roots)
    \/ OnboardingSkipWorkspace
    \/ \E root \in RootInputs : SetActiveWorkspaceRoot(root)
    \/ \E key \in {ActiveRootsKey, SavedRootsKey},
          value \in {NoRootList} \cup {RootList(roots) : roots \in RootInputLists} :
           SetGlobalStateRoots(key, value)
    \/ WriteTimerFires

----------------------------------------------------------------------------
(* MessageRouter.dispose (src/src/bun-pty-bridge.mjs)                       *)

\* GitWorkerBridge.dispose(): a terminated worker answers nothing
GitDispose(w) ==
    [w EXCEPT !.git.worker = FALSE, !.git.pendingByRequestId = EmptyMap, !.inbox = {}]

\* the end of MessageRouter.dispose(): every controller in fetchControllers
\* is aborted, which aborts the fetch of the call that set it, and the map
\* is cleared
RouterAbortFetches(w) ==
    [w EXCEPT !.fetching = {IF /\ call.requestId \in DOMAIN w.controllers
                               /\ w.controllers[call.requestId] = call.ws
                                THEN [call EXCEPT !.aborted = TRUE] ELSE call : call \in @},
              !.controllers = EmptyMap]

\* MessageRouter.dispose()
RouterDispose ==
    /\ PersistBecomes("dispose", PersistPending,
                      PersistDispose(PersistNow, workspaceRootOptions))
    /\ LET t == TermDispose(TermNow, DOMAIN term.sessions)
       IN term' = t.c /\ termProcs' = t.procs
    /\ LET w == RouterAbortFetches(GitDispose(RouterNow))
       IN /\ RouterBecomes(w)
          /\ envLast' = RouterRan("dispose", NoConn, RouterNoEnvelope, RouterNoRequest,
                                  FALSE, w)
    /\ UNCHANGED <<routerLast, termLast, rootVars, threadLast,
                   frameVars, busVars, rpcVars>>

\* the envelopes that give the Router something to dispose of: fetches of
\* either connection, terminal sessions and worker requests of the first
RouterDisposeEnvelopes(ws) ==
    {RouterEnvelope("view-message", "", p) :
         p \in {RouterPayload("fetch", NoId, NoId, rid) : rid \in RouterFetchIds}
               \cup IF ws # "ws1" THEN {}
                    ELSE {RouterPayload("terminal-create", NoId, NoId, sid) :
                              sid \in RouterSessionIds}
                             \cup {RouterPayload("worker-request", id, NoId, NoKey) :
                                       id \in GitRequestIds}}

\* the Router up to and after its dispose()
NextDispose ==
    \/ \E ws \in RouterConns : RegisterClient(ws)
    \/ \E ws \in RouterConns :
           \E envelope \in RouterDisposeEnvelopes(ws), out \in TermSpawnOutcomes :
               HandleEnvelope(ws, envelope, out)
    \/ \E call \in gitPosting, accessible \in BOOLEAN, workerFails \in BOOLEAN :
           PostMessageResume(call, accessible, workerFails)
    \/ \E call \in routerFetching : FetchSettled(call)
    \/ \E request \in workerInbox : WorkerResponse(request)
    \/ \E sid \in RouterSessionIds : Close(sid)
    \/ \E p \in DOMAIN termProcs : TermProcExit(p)
    \/ \E key \in {"k1"}, value \in {"v1"} : UpdatePersistedAtom(key, value)
    \/ WriteTimerFires
    \/ RouterDispose

----------------------------------------------------------------------------
(* The specifications *)

vars == <<frameVars, busVars, rpcVars, termVars, routerVars, workspaceVars>>

InitSpecFrame == InitFrame /\ IdleBus /\ IdleRpc /\ IdleTerm /\ IdleRouter /\ IdleWorkspace

SpecFrame == InitSpecFrame /\ [][NextFrame]_vars

InitSpecBus == InitBus /\ IdleFrame /\ IdleRpc /\ IdleTerm /\ IdleRouter /\ IdleWorkspace

SpecBus == InitSpecBus /\ [][NextBus]_vars

\* the bus client with the deliveries of its peer
InitSpecBusData ==
    InitBus /\ IdleFrame /\ IdleRpc /\ IdleTerm /\ IdleRouter /\ IdleWorkspace

SpecBusData == InitSpecBusData /\ [][NextBusData]_vars

InitSpecRpc == InitRpc /\ IdleFrame /\ IdleBus /\ IdleTerm /\ IdleRouter /\ IdleWorkspace

SpecRpc == InitSpecRpc /\ [][NextRpc]_vars

\* the request client with the stdout of its subprocess
InitSpecStdout ==
    /\ InitRpcClient /\ InitStdout
    /\ IdleFrame /\ IdleBus /\ IdleTerm /\ IdleRouter /\ IdleWorkspace

SpecStdout == InitSpecStdout /\ [][NextStdout]_vars

InitSpecTerm == InitTerm /\ IdleFrame /\ IdleBus /\ IdleRpc /\ IdleRouter /\ IdleWorkspace

SpecTerm == InitSpecTerm /\ [][NextTerm]_vars

InitSpecRouter == InitRouter /\ IdleFrame /\ IdleBus /\ IdleRpc /\ IdleTerm /\ IdleWorkspace

SpecRouter == InitSpecRouter /\ [][NextRouter]_vars

\* the two request clients side by side: they are separate objects that
\* share nothing, and a behaviour of SpecClients is a behaviour of one of them
InitSpecClients == InitBus /\ InitRpc /\ IdleFrame /\ IdleTerm /\ IdleRouter /\ IdleWorkspace

NextClients ==
    \/ IdleRpc /\ NextBus
    \/ IdleBus /\ NextRpc

SpecClients == InitSpecClients /\ [][NextClients]_vars

\* the Router with its worker bridge
InitSpecWorker == InitRouter /\ IdleFrame /\ IdleBus /\ IdleRpc /\ IdleTerm /\ IdleWorkspace

SpecWorker == InitSpecWorker /\ [][NextWorker]_vars

\* the Router with its registries of connections
InitSpecRegistries == InitRouter /\ IdleFrame /\ IdleBus /\ IdleRpc /\ IdleTerm /\ IdleWorkspace

SpecRegistries == InitSpecRegistries /\ [][NextRegistries]_vars

\* the Router with the view messages that it declines
InitSpecUnsupported ==
    InitRouter /\ IdleFrame /\ IdleBus /\ IdleRpc /\ IdleTerm /\ IdleWorkspace

SpecUnsupported == InitSpecUnsupported /\ [][NextUnsupported]_vars

\* the Router with everything that its dispose() is to clear
InitSpecDispose ==
    InitRouter /\ IdleFrame /\ IdleBus /\ IdleRpc /\ IdleTerm /\ IdleWorkspace

SpecDispose == InitSpecDispose /\ [][NextDispose]_vars

\* the Router's global state and its debounced writes to disk
InitPersist ==
    /\ workspaceRootOptions = << <<"/">> >>
    /\ activeWorkspaceRoots = << <<"/">> >>
    /\ defaultWorkspaceRoot = <<"/">>
    /\ threadLast = ThreadNoHandler
    /\ \E atoms \in {EmptyMap, MapSet(EmptyMap, "k1", "v1")} : persistedAtomState = atoms
    /\ globalStateWriteTimer = FALSE
    /\ persistArmed = 0
    /\ persistLast = PersistNoHandler

NextPersist ==
    \/ \E roots \in RootMessages : UpdateWorkspaceRootOptions(roots)
    \/ \E key \in PersistKeys \cup {NoKey}, value \in PersistValues :
           UpdatePersistedAtom(key, value)
    \/ \E key \in PersistKeys \cup {NoKey} : ResetPersistedAtom(key)
    \/ WriteTimerFires

InitSpecPersist ==
    InitPersist /\ IdleFrame /\ IdleBus /\ IdleRpc /\ IdleTerm /\ IdleRouter

SpecPersist == InitSpecPersist /\ [][NextPersist]_vars

\* the Router's saved workspace roots and its thread/list filter
\* a server without state file in any working directory, or one in /a whose
\* state file holds any list of saved roots
InitSpecWorkspace ==
    /\ \/ InitWorkspace(WorkingDirectories, {<<>>}, {<<>>})
       \/ InitWorkspace({<<"/", "a">>}, RootLists, {<<>>})
    /\ IdleFrame /\ IdleBus /\ IdleRpc /\ IdleTerm /\ IdleRouter

SpecWorkspace == InitSpecWorkspace /\ [][NextWorkspace]_vars

\* the Router's workspace roots under the messages that change them, for a
\* server started in / or in /a, without state file or with one that names
\* roots
InitSpecRoots ==
    /\ InitWorkspace({<<"/">>, <<"/", "a">>}, {<<>>, <<PathValue(<<"a", "/">>)>>},
                     {<<>>, <<PathValue(<<"/", "a">>)>>})
    /\ IdleFrame /\ IdleBus /\ IdleRpc /\ IdleTerm /\ IdleRouter

SpecRoots == InitSpecRoots /\ [][NextRoots]_vars

----------------------------------------------------------------------------
(* Properties of the frame codec *)

OneValueFrame == Len(fdSent) = 1 /\ fdSent[1].kind = "value"

\* C1 as stated: one encoded payload, delivered in any chunks, yields exactly
\* that payload once all its bytes are in, and nothing before that
C1_RoundTripAnyPayload ==
    OneValueFrame =>
        /\ fdError = "none"
        /\ fdOut = IF fdWire = <<>> THEN <<fdSent[1].value>> ELSE <<>>

\* C1 amended: the round trip under arbitrary splitting holds for every payload
\* that is not a string (encodeFrame sends a string as it is, unquoted)
C1_RoundTripNonString ==
    (OneValueFrame /\ fdSent[1].value.t # "str") =>
        /\ fdError = "none"
        /\ fdOut = IF fdWire = <<>> THEN <<fdSent[1].value>> ELSE <<>>

\* a frame with a multi-byte character was split inside its payload, and the
\* last push completed it
C1_Witness ==
    /\ OneValueFrame
    /\ fdSent[1].value = JObj(<<<<(<<116>>), JStr(<<233>>)>>>>)
    /\ fdWire = <<>>
    /\ Len(fdLastChunk) = 1
    /\ fdOut = <<fdSent[1].value>>
    /\ fdLastReturn = fdOut

FirstFrameOversize == fdSent[1].kind = "oversize"

\* C2 as stated: when push throws for an oversized declared length, no byte of
\* that frame's payload is in the decoder's buffer
C2_NoPayloadByteBuffered ==
    (FirstFrameOversize /\ fdError = "frame") => fdBuffer = <<>>

\* C2 amended: push throws in the very call that completes the length prefix;
\* the buffer then holds only bytes that arrived in that same chunk after the
\* prefix, and no message is returned
C2_RejectedOnPrefix ==
    /\ (FirstFrameOversize /\ fdError = "none") =>
           Len(StreamBytes(fdSent)) - Len(fdWire) < 4
    /\ (FirstFrameOversize /\ fdError = "frame") =>
           /\ fdCurrentFrameLength = MaxFrameBytes + 1
           /\ Len(fdBuffer) < Len(fdLastChunk)
           /\ fdBuffer = SubSeq(fdLastChunk, Len(fdLastChunk) - Len(fdBuffer) + 1,
                                Len(fdLastChunk))
           /\ Len(StreamBytes(fdSent)) - Len(fdWire) = 4 + Len(fdBuffer)
           /\ fdLastReturn = <<>>
           /\ fdOut = <<>>

\* the prefix arrived split and its last byte came with three payload bytes
C2_Witness ==
    /\ FirstFrameOversize
    /\ fdError = "frame"
    /\ Len(fdLastChunk) = 5
    /\ Len(fdBuffer) = 3

----------------------------------------------------------------------------
(* Properties of the bus client *)

BusNoRequestTimerArmed == \A i \in DOMAIN busReqs : ~busReqs[i].timer

BusRejectedOnceWith(i, err) ==
    /\ busReqs[i].state = "rejected"
    /\ busReqs[i].error = err
    /\ busReqs[i].settles = 1
    /\ ~busReqs[i].timer

\* C3: when stop() returns, every request that was pending at the call has been
\* rejected exactly once, the pending map is empty and no request timer is
\* armed; whatever arrives later, a request rejected by stop() stays rejected
\* once and is not pending again
C3_BusStopRejectsPending ==
    /\ busLast.op = "stop" =>
           /\ bus.pending = {}
           /\ BusNoRequestTimerArmed
           /\ \A i \in busLast.ids : BusRejectedOnceWith(i, "ipc client stopped")
    /\ \A i \in busStopRejected :
           /\ BusRejectedOnceWith(i, "ipc client stopped")
           /\ i \notin bus.pending

\* stop() rejected two requests, and a response for one of them has arrived on
\* a socket opened since
C3_Witness ==
    /\ busLast.op = "response"
    /\ busLast.id \in busStopRejected
    /\ Cardinality(busStopRejected) >= 2

\* C10: the close handler rejects every request pending at that moment with
\* the one error "ipc socket closed" and empties the pending map; it leaves
\* exactly one reconnect timer armed when the client is not stopped and none
\* when it is; never is more than one reconnect timer armed
C10_BusCloseHandling ==
    /\ busReconnectArmed <= 1
    /\ busLast.op = "close" =>
           /\ bus.pending = {}
           /\ \A i \in busLast.ids : BusRejectedOnceWith(i, "ipc socket closed")
           /\ busReconnectArmed = (IF bus.stopped THEN 0 ELSE 1)
           /\ bus.reconnectTimer = ~bus.stopped

\* a second socket closes, with a request pending, while the reconnect timer
\* armed by the first close has not fired yet
C10_Witness ==
    /\ busLast.op = "close"
    /\ busLast.id = 2
    /\ busLast.ids # {}
    /\ busSocks[1] = "closed"
    /\ ~bus.stopped
    /\ busReconnectArmed = 1

\* the close handler ran on a stopped client that had a request pending
C10_WitnessStopped ==
    /\ busLast.op = "close"
    /\ busLast.ids # {}
    /\ bus.stopped

----------------------------------------------------------------------------
(* Properties of the RPC client *)

RpcNoRequestTimerArmed == \A i \in DOMAIN rpcReqs : ~rpcReqs[i].timer

RpcRejectedOnceWith(i, err) ==
    /\ rpcReqs[i].state = "rejected"
    /\ rpcReqs[i].error = err
    /\ rpcReqs[i].settles = 1
    /\ ~rpcReqs[i].timer

\* C4: when stop() returns, every request that was pending at the call has
\* been rejected exactly once, the pending map is empty, no request timer is
\* armed, the process handle is cleared and connected = initialized = FALSE;
\* a request rejected by stop() is never settled again by a late line
C4_RpcStopRejectsPending ==
    /\ rpcLast.op = "stop" =>
            /\ DOMAIN rpc.pending = {}
            /\ RpcNoRequestTimerArmed
            /\ rpc.proc = NoProc
            /\ ~rpc.connected
            /\ ~rpc.initialized
            /\ \A i \in rpcLast.live : RpcRejectedOnceWith(i, "App server stopped")
    /\ \A i \in DOMAIN rpcReqs :
            rpcReqs[i].error = "App server stopped" => RpcRejectedOnceWith(i, "App server stopped")

\* C5: when the exit handler has run, every request that was pending is
\* rejected with the process-exited error, the pending map is empty, getState()
\* is disconnected and one connection-changed event carrying it was emitted
C5_RpcExitRejectsPending ==
    rpcLast.op = "exit" =>
        /\ DOMAIN rpc.pending = {}
        /\ \A i \in rpcLast.live : RpcRejectedOnceWith(i, "App server process exited")
        /\ RpcGetState(rpc) = [connected |-> FALSE, initialized |-> FALSE]
        /\ rpcLast.emitted = <<[connected |-> FALSE, initialized |-> FALSE]>>

----------------------------------------------------------------------------
(* Properties of the terminal registry *)

\* every session of the registry has a listener and the running process
\* that was spawned for its id
TermSessionsWellFormed ==
    \A sid \in DOMAIN term.sessions :
        LET session == term.sessions[sid]
        IN /\ Len(session.listeners) > 0
           /\ session.proc \in DOMAIN termProcs
           /\ termProcs[session.proc].sessionId = sid
           /\ termProcs[session.proc].mode = session.mode
           /\ termProcs[session.proc].state = "running"

\* C6: write, resize and close with a session id that has no session do not
\* throw, send nothing, touch no process and leave the registry as it was
C6_UnknownSessionIsNoOp ==
    [][(/\ termLast'.op \in {"write", "resize", "close"}
        /\ termLast'.sessionId \notin DOMAIN term.sessions)
       => /\ ~termLast'.threw
          /\ termLast'.sent = <<>>
          /\ termLast'.touched = {}
          /\ termProcs' = termProcs
          /\ term' = term]_vars

C6_Witness ==
    /\ termLast.op = "close"
    /\ ~termLast.known
    /\ ~termLast.threw
    /\ DOMAIN term.sessions # {}

\* C7: createOrAttach for an id that has a session spawns nothing and adds
\* the caller to the listeners of that session, whose process stays the
\* same; for an id without a session it spawns at most one process, and the
\* session it registers has that new process and the caller as its only
\* listener.  So of two calls in a row by two connections for an id the
\* first of which made the session, exactly one spawned a process and both
\* connections are listeners of the one session.
C7_SingleProcessPerSessionId ==
    [][termLast'.op = "createOrAttach"
       => LET sid == termLast'.sessionId
              ws == termLast'.ws
          IN /\ TermSessionsWellFormed'
             /\ sid \in DOMAIN term.sessions
                  => /\ termLast'.spawned = 0
                     /\ termProcs' = termProcs
                     /\ sid \in DOMAIN term'.sessions
                     /\ term'.sessions[sid].proc = term.sessions[sid].proc
                     /\ SeqToSet(term'.sessions[sid].listeners)
                           = SeqToSet(term.sessions[sid].listeners) \cup {ws}
             /\ sid \notin DOMAIN term.sessions
                  => /\ termLast'.spawned \in {0, 1}
                     /\ sid \in DOMAIN term'.sessions
                          => /\ termLast'.spawned = 1
                             /\ term'.sessions[sid].proc = Len(termProcs')
                             /\ term'.sessions[sid].listeners = <<ws>>
             /\ (/\ termLast.op = "createOrAttach"
                 /\ termLast.sessionId = sid
                 /\ ~termLast.known
                 /\ termLast.ws # ws
                 /\ sid \in DOMAIN term.sessions)
                  => /\ termLast.spawned + termLast'.spawned = 1
                     /\ SeqToSet(term'.sessions[sid].listeners) = {termLast.ws, ws}]_vars

C7_Witness ==
    /\ termLast.op = "createOrAttach"
    /\ termLast.known
    /\ termLast.spawned = 0
    /\ Len(termProcs) = 1
    /\ termProcs[1].state = "running"
    /\ termLast.sessionId \in DOMAIN term.sessions
    /\ term.sessions[termLast.sessionId].proc = 1
    /\ SeqToSet(term.sessions[termLast.sessionId].listeners) = TermConns

\* C8: removeListener(ws) leaves a session that has another listener in the
\* registry, without ws and with its process untouched; it kills the process
\* of a session whose only listener was ws and removes that session; no
\* session of the registry is ever without a listener
C8_LastListenerTeardown ==
    [][termLast'.op = "removeListener"
       => /\ TermSessionsWellFormed'
          /\ \A sid \in DOMAIN term.sessions :
                LET session == term.sessions[sid]
                    rest == SetDelete(session.listeners, termLast'.ws)
                IN IF Len(rest) > 0
                       THEN /\ sid \in DOMAIN term'.sessions
                            /\ term'.sessions[sid] = [session EXCEPT !.listeners = rest]
                            /\ termProcs'[session.proc].state = "running"
                            /\ session.proc \notin termLast'.touched
                       ELSE /\ sid \notin DOMAIN term'.sessions
                            /\ termProcs'[session.proc].state = "killed"
                            /\ session.proc \in termLast'.touched]_vars

C8_Witness ==
    /\ termLast.op = "removeListener"
    /\ termLast.closed # {}
    /\ termLast.left # {}
    /\ \E p \in termLast.touched : termProcs[p].state = "killed"
    /\ \A sid \in termLast.left :
          /\ sid \in DOMAIN term.sessions
          /\ termLast.ws \notin SeqToSet(term.sessions[sid].listeners)
          /\ termProcs[term.sessions[sid].proc].state = "running"

----------------------------------------------------------------------------
(* Properties of the message buckets *)

RouterBuckets == <<FULL_HANDLING_BUCKET, BROWSER_EQUIVALENT_BUCKET, GRACEFUL_UNSUPPORTED_BUCKET>>

RouterBucketsOf(type) == {b \in DOMAIN RouterBuckets : type \in SeqToSet(RouterBuckets[b])}

\* C9: a message type that _handleViewMessage handles, by a case of its own
\* or through the unsupported set, is in exactly one of the three buckets
C9_SingleBucketMembership ==
    routerLast.outcome \in {"handled", "ignored", "unsupported_native_action"}
        => Cardinality(RouterBucketsOf(routerLast.type)) = 1

----------------------------------------------------------------------------
(* Properties of the RPC client's start, restart and request ids *)

RpcInitializeCount(reqs) ==
    Cardinality({i \in DOMAIN reqs : reqs[i].method = "initialize"})

\* C11: a start(), sendRequest, sendRaw or sendNotification made while a
\* start is in flight spawns no process, sends no second initialize request
\* and leaves that start in flight; made on a connected and initialized
\* client it spawns nothing; every process spawned got one handshake
C11_StartIsShared ==
    [][rpcLast'.op \in {"start", "sendRequest", "sendRaw", "sendNotification"}
       => /\ rpc.connecting
               => /\ rpcProcs' = rpcProcs
                  /\ RpcInitializeCount(rpcReqs') = RpcInitializeCount(rpcReqs)
                  /\ rpc'.connecting
                  /\ rpc'.initReq = rpc.initReq
          /\ (rpc.connected /\ rpc.initialized)
               => /\ rpcProcs' = rpcProcs
                  /\ RpcInitializeCount(rpcReqs') = RpcInitializeCount(rpcReqs)
          /\ RpcInitializeCount(rpcReqs') = Len(rpcProcs')]_vars

\* a start() called while the start of the only process was in flight
C11_Witness ==
    /\ rpcLast.op = "start"
    /\ rpc.connecting
    /\ rpc.initReq \in rpcLast.live
    /\ Len(rpcProcs) = 1
    /\ RpcInitializeCount(rpcReqs) = 1

\* C12: once the subprocess has exited and the client is disconnected, only
\* a start() of the caller spawns a new subprocess
C12_NoImplicitRestart ==
    [][(/\ rpcLast'.op # "start"
        /\ rpc.proc = NoProc
        /\ ~rpc.connected
        /\ \E p \in DOMAIN rpcProcs : rpcProcs[p].state = "exited")
       => Len(rpcProcs') = Len(rpcProcs)]_vars

\* C13: a request that is pending is the one the pending map holds under its
\* id, that is, no pending entry has been overwritten while its request was
\* live
C13_PendingIdsUnique ==
    \A i \in DOMAIN rpcReqs :
        rpcReqs[i].state = "pending"
            => /\ rpcReqs[i].id \in DOMAIN rpc.pending
               /\ rpc.pending[rpcReqs[i].id] = i

----------------------------------------------------------------------------
(* Timeouts of both clients *)

FutureSettled(r) == r.state \in {"resolved", "rejected"}

\* C14: the timeout of a request removes its pending entry and rejects its
\* future, once; a response whose id has no pending entry changes nothing;
\* a settled future never changes again and no future is settled twice
C14_TimeoutIsFinal ==
    [][/\ busLast'.op = "timeout"
            => /\ busLast'.id \notin bus'.pending
               /\ busReqs'[busLast'.id].state = "rejected"
               /\ busReqs'[busLast'.id].error = "timeout"
               /\ busReqs'[busLast'.id].settles = 1
       /\ (busLast'.op = "response" /\ busLast'.id \notin bus.pending)
            => /\ busReqs' = busReqs
               /\ bus' = bus
       /\ \A i \in DOMAIN busReqs :
            FutureSettled(busReqs[i]) => busReqs'[i] = busReqs[i]
       /\ \A i \in DOMAIN busReqs' : busReqs'[i].settles <= 1
       /\ rpcLast'.op = "timeout"
            => /\ rpcLast'.id \notin DOMAIN rpc'.pending
               /\ \A i \in DOMAIN rpcReqs :
                    (rpcReqs[i].timer /\ ~rpcReqs'[i].timer)
                        => /\ rpcReqs'[i].state = "rejected"
                           /\ rpcReqs'[i].error = "app-server request timeout"
                           /\ rpcReqs'[i].settles = 1
       /\ (rpcLast'.op = "line" /\ rpcLast'.id \notin DOMAIN rpc.pending)
            => /\ rpcReqs' = rpcReqs
               /\ rpc' = rpc
       /\ \A i \in DOMAIN rpcReqs :
            FutureSettled(rpcReqs[i]) => rpcReqs'[i] = rpcReqs[i]
       /\ \A i \in DOMAIN rpcReqs' : rpcReqs'[i].settles <= 1]_vars

\* a line arrives that carries the id of a request that has timed out
C14_Witness ==
    /\ rpcLast.op = "line"
    /\ rpcLast.id \notin rpcLast.ids
    /\ \E i \in DOMAIN rpcReqs :
          /\ rpcReqs[i].id = rpcLast.id
          /\ RpcRejectedOnceWith(i, "app-server request timeout")

----------------------------------------------------------------------------
(* Properties of the Router's registries and of its worker bridge *)

\* the connections that own a pending worker request
GitOwners == {gitWorker.pendingByRequestId[id] : id \in DOMAIN gitWorker.pendingByRequestId}

\* the connections whose fetch has a controller in fetchControllers
RouterFetchOwners == {fetchControllers[rid] : rid \in DOMAIN fetchControllers}

\* C15: a connection that unregisterClient has run for is in no registry of
\* the Router (clients, the subscribers of a shared object, the listeners of
\* a terminal session, the owners of pending worker requests) and none of
\* its fetches has a controller, in that state and in every later one
C15_NoDanglingReference ==
    \A ws \in routerClosed :
        /\ ws \notin routerClients
        /\ \A key \in DOMAIN sharedObjectSubscribers : ws \notin sharedObjectSubscribers[key]
        /\ \A sid \in DOMAIN term.sessions : ws \notin SeqToSet(term.sessions[sid].listeners)
        /\ ws \notin GitOwners
        /\ ws \notin RouterFetchOwners

\* the registries of the Router, its worker bridge and the calls in flight
RouterState ==
    <<routerClients, routerClosed, sharedObjectSubscribers, fetchControllers,
      routerFetching, gitWorker, gitPosting, workerInbox, term, termProcs>>

\* the last handler was handleEnvelope for an envelope whose type is none of
\* the cases of its switch
RouterUnknownEnvelope(last) ==
    /\ last.op = "handleEnvelope"
    /\ last.envelope.type \notin {"view-message", "worker-message"}

\* the last handler was handleEnvelope for a view message whose type is none
\* of the cases of _handleViewMessage and not in NATIVE_UNSUPPORTED
RouterUnknownMessage(last) ==
    /\ last.op = "handleEnvelope"
    /\ last.envelope.type = "view-message"
    /\ last.envelope.payload # RouterNoPayload
    /\ RouterDispatch(last.envelope.payload.type) = "unsupported_message_type"

\* C16: handleEnvelope for an envelope of unknown type sends one
\* bridge-error with code unsupported_envelope_type to the sender, and for a
\* view message of unknown type one bridge-error with code
\* unsupported_message_type to the sender; it sends nothing else, changes
\* nothing in the Router and does not throw
C16_UnknownDiscriminantsAnswered ==
    [][/\ RouterUnknownEnvelope(envLast')
           => /\ envLast'.sent = <<RouterMsg(envLast'.ws, "bridge-error",
                                             "unsupported_envelope_type", NoId, "none")>>
              /\ ~envLast'.threw /\ ~envLast'.rejected
              /\ UNCHANGED RouterState
       /\ RouterUnknownMessage(envLast')
           => /\ envLast'.sent = <<RouterMsg(envLast'.ws, "bridge-error",
                                             "unsupported_message_type", NoId, "none")>>
              /\ ~envLast'.threw /\ ~envLast'.rejected
              /\ UNCHANGED RouterState]_vars

\* an unknown envelope type was answered while another connection was there
C16_Witness ==
    /\ RouterUnknownEnvelope(envLast)
    /\ Len(envLast.sent) = 1
    /\ routerClients = RouterConns

\* C17: when a sub-handler that handleEnvelope dispatched to throws, the
\* promise of handleEnvelope does not reject, and the sender, if it is still
\* connected, gets one bridge-error with code message_handler_error
C17_FailuresStopAtDispatch ==
    envLast.threw
        => /\ ~envLast.rejected
           /\ envLast.ws \in routerClients
                  => envLast.sent = <<RouterMsg(envLast.ws, "bridge-error",
                                                "message_handler_error", NoId, "none")>>

\* C18: the response of the worker to a request that carries an id is sent
\* to no connection but the one that sent the request
C18_ResponseOnlyToRequester ==
    (envLast.op = "workerMessage" /\ envLast.request.id # NoId)
        => \A i \in DOMAIN envLast.sent : envLast.sent[i].to = envLast.request.from

\* the last handler was a postMessage call that found the worker
\* unavailable: fs.access failed, or the bridge, in state git, has no
\* workerPath and handleEnvelope was given an envelope for the git worker
GitFoundUnavailable(last, git) ==
    \/ last.op = "postMessage" /\ ~last.accessible
    \/ /\ last.op = "handleEnvelope"
       /\ ~git.workerPath
       /\ RouterReachesWorker(last.envelope)

\* the id of the request that a payload is about
GitRequestIdOf(payload) ==
    IF payload.type = "worker-request" THEN payload.request ELSE payload.id

\* C19: a postMessage that finds the worker unavailable (no workerPath, or
\* fs.access fails) sends one worker-response with the id of the request
\* and the error "git worker unavailable" to the calling connection, if it
\* is still connected, and to no other; it starts no worker, records no
\* pending owner, posts nothing to the worker and does not throw
C19_WorkerUnavailable ==
    [][GitFoundUnavailable(envLast', gitWorker)
          => /\ envLast'.sent =
                    IF envLast'.ws \in routerClients
                        THEN <<RouterMsg(envLast'.ws, "worker-event", "worker-response",
                                         GitRequestIdOf(envLast'.envelope.payload),
                                         "git worker unavailable")>>
                        ELSE <<>>
             /\ gitWorker' = gitWorker
             /\ workerInbox' = workerInbox
             /\ ~envLast'.threw /\ ~envLast'.rejected]_vars

\* a request with an id was answered "unavailable" after fs.access failed,
\* with another connection registered
C19_Witness ==
    /\ envLast.op = "postMessage" /\ ~envLast.accessible
    /\ envLast.envelope.payload.type = "worker-request"
    /\ envLast.envelope.payload.request # NoId
    /\ Len(envLast.sent) = 1
    /\ routerClients = RouterConns
    /\ ~gitWorker.worker

\* the last handler was the worker's message handler for a message that is
\* not a response with an id that has an owner in pending
GitUnmatched(last, pending) ==
    \/ last.op = "workerEvent"
    \/ last.op = "workerMessage"
           /\ (last.request.id = NoId \/ last.request.id \notin DOMAIN pending)

\* a message of the worker without pending owner is sent as one
\* worker-event to each registered connection, and to no other
GitBroadcastsUnmatched ==
    GitUnmatched(envLast', gitWorker.pendingByRequestId)
        => /\ {envLast'.sent[i].to : i \in DOMAIN envLast'.sent} = routerClients
           /\ Len(envLast'.sent) = Cardinality(routerClients)
           /\ \A i \in DOMAIN envLast'.sent : envLast'.sent[i].envelope = "worker-event"

\* the last handler was a postMessage that ran to its end, in one turn on a
\* bridge without workerPath, for a worker-request-cancel with an id
GitCancelled(last, git) ==
    /\ last.envelope.payload.type = "worker-request-cancel"
    /\ last.envelope.payload.id # NoId
    /\ \/ last.op = "postMessage"
       \/ last.op = "handleEnvelope" /\ ~git.workerPath /\ RouterReachesWorker(last.envelope)

\* C20, as stated: a worker message without pending owner goes to every
\* registered connection, and every postMessage of a worker-request-cancel
\* leaves no owner for its id, with no message of the worker in between
C20_CancelAlwaysRemoves ==
    [][/\ GitBroadcastsUnmatched
       /\ GitCancelled(envLast', gitWorker)
           => envLast'.envelope.payload.id \notin DOMAIN gitWorker'.pendingByRequestId]_vars

\* C20, amended: a worker message without pending owner goes to every
\* registered connection, and the postMessage of a worker-request-cancel
\* that finds the worker available and running or started leaves no owner
\* for its id, in the same step and with the worker's inbox as it was
C20_UnmatchedBroadcastCancelRemoves ==
    [][/\ GitBroadcastsUnmatched
       /\ (GitCancelled(envLast', gitWorker) /\ envLast'.accessible /\ ~envLast'.threw)
           => /\ envLast'.envelope.payload.id \notin DOMAIN gitWorker'.pendingByRequestId
              /\ workerInbox' = workerInbox]_vars

\* the worker answered a request whose owner was gone, and the answer went
\* to both connections
C20_Witness ==
    /\ envLast.op = "workerMessage"
    /\ envLast.request.id # NoId
    /\ Len(envLast.sent) = 2
    /\ routerClients = RouterConns

----------------------------------------------------------------------------
(* Properties of the terminal sessions' events, attach and resize *)

\* the listeners of the session that runs on process p, in registry c
TermListenersOf(c, p) ==
    UNION {SeqToSet(c.sessions[sid].listeners) :
               sid \in {x \in DOMAIN c.sessions : c.sessions[x].proc = p}}

\* the message type that an event of a process is sent as
TermEventType(op) ==
    IF op = "data" THEN "terminal-data"
    ELSE IF op = "error" THEN "terminal-error"
    ELSE "terminal-exit"

\* C21: a data, error or exit event of a process is sent, under its type,
\* once to each listener that the session running on that process has when
\* the event is handled, and to no other connection
C21_TerminalFanOut ==
    [][termLast'.op \in {"data", "error", "exit-line", "exit"}
          => /\ {termLast'.sent[i].to : i \in DOMAIN termLast'.sent}
                    = TermListenersOf(term, termLast'.proc)
             /\ Len(termLast'.sent) = Cardinality(TermListenersOf(term, termLast'.proc))
             /\ \A i \in DOMAIN termLast'.sent :
                    termLast'.sent[i].type = TermEventType(termLast'.op)]_vars

\* a createOrAttach for a session id that is registered when it is called
TermAttachStep == termLast'.op = "createOrAttach" /\ termLast'.known

\* what an attach replays to connection ws from the session stored under sid
TermReplay(c, ws, sid) ==
    <<[to |-> ws, type |-> "terminal-attached", sessionId |-> sid,
       launch |-> c.sessions[sid].launch, log |-> NoLog],
      [to |-> ws, type |-> "terminal-init-log", sessionId |-> sid,
       launch |-> NoLaunch, log |-> c.sessions[sid].attachLog]>>

\* C22 as stated: createOrAttach for a registered session id spawns no
\* process, adds the connection to the listeners, sends it terminal-attached
\* with the stored cwd and shell and then terminal-init-log with the stored
\* log, and sends nothing else
C22_AttachReplaysOnly ==
    [][TermAttachStep
          => /\ termLast'.spawned = 0
             /\ termLast'.ws \in SeqToSet(term'.sessions[termLast'.sessionId].listeners)
             /\ termLast'.sent = TermReplay(term, termLast'.ws, termLast'.sessionId)]_vars

\* C22: createOrAttach for a registered session id spawns no process, adds
\* the connection to the listeners and first sends it terminal-attached with
\* the stored cwd and shell and then terminal-init-log with the stored log;
\* whatever follows is terminal-error for that session, sent to its
\* listeners, and follows only on a bun-pty session
C22_AttachReplaysThenResizes ==
    [][TermAttachStep
          => LET sid == termLast'.sessionId
                 sent == termLast'.sent
             IN /\ termLast'.spawned = 0
                /\ termLast'.ws \in SeqToSet(term'.sessions[sid].listeners)
                /\ Len(sent) >= 2
                /\ SubSeq(sent, 1, 2) = TermReplay(term, termLast'.ws, sid)
                /\ \A i \in 3..Len(sent) :
                       /\ sent[i].type = "terminal-error"
                       /\ sent[i].sessionId = sid
                       /\ sent[i].to \in SeqToSet(term'.sessions[sid].listeners)
                       /\ term.sessions[sid].mode = "bun-pty"]_vars

\* a second connection attached to a session and got the replay alone
C22_Witness ==
    /\ termLast.op = "createOrAttach"
    /\ termLast.known
    /\ Len(termLast.sent) = 2
    /\ termLast.sent[1].type = "terminal-attached"
    /\ termLast.sent[1].launch \in TermLaunches
    /\ termLast.sessionId \in DOMAIN term.sessions
    /\ Cardinality(SeqToSet(term.sessions[termLast.sessionId].listeners)) = 2

----------------------------------------------------------------------------
(* Properties of forwarded fetches *)

\* the last handler was handleEnvelope for a cancel-fetch whose request id
\* had a controller, that is, whose fetch was in flight
RouterCancelledFetch ==
    /\ envLast'.op = "handleEnvelope"
    /\ envLast'.envelope.type = "view-message"
    /\ envLast'.envelope.payload.type = "cancel-fetch"
    /\ envLast'.envelope.payload.arg \in DOMAIN fetchControllers

\* the fetch-response messages among those of the last handler
RouterFetchResponses(last) ==
    {i \in DOMAIN last.sent : last.sent[i].code = "fetch-response"}

\* C23: a cancel-fetch for a request id whose fetch is in flight aborts the
\* fetch and removes the id from fetchControllers, and the aborted call
\* sends no fetch-response when it goes on
C23_CancelledFetchIsSilent ==
    [][/\ RouterCancelledFetch
           => LET rid == envLast'.envelope.payload.arg
              IN /\ rid \notin DOMAIN fetchControllers'
                 /\ \E call \in routerFetching' :
                        /\ call.ws = fetchControllers[rid]
                        /\ call.requestId = rid
                        /\ call.aborted
       /\ envLast'.op = "fetchSettled"
           => \A call \in routerFetching \ routerFetching' :
                  call.aborted => RouterFetchResponses(envLast') = {}]_vars

----------------------------------------------------------------------------
(* Properties of resize on a backend without resizing *)

\* the last handler was a terminal-resize for a registered session that
\* runs in pipe mode
TermPipeResize ==
    /\ termLast'.op = "resize"
    /\ termLast'.known
    /\ term.sessions[termLast'.sessionId].mode = "pipe"

\* C24: a terminal-resize for a registered session in pipe mode is answered
\* with a message to the requester, and the session stays registered with
\* its process running and its listeners unchanged
C24_PipeResizeAnswered ==
    [][TermPipeResize
          => LET sid == termLast'.sessionId
             IN /\ \E i \in DOMAIN termLast'.sent :
                       /\ termLast'.sent[i].to = termLast'.ws
                       /\ termLast'.sent[i].sessionId = sid
                /\ ~termLast'.threw
                /\ sid \in DOMAIN term'.sessions
                /\ term'.sessions[sid] = term.sessions[sid]
                /\ termProcs' = termProcs]_vars

----------------------------------------------------------------------------
(* Properties of the thread/list filter *)

\* a thread/list result whose data is an array has been relayed
ThreadRelayed == threadLast.op = "thread/list" /\ threadLast.result.array

\* the entry has a cwd, and trimmed and without its trailing slashes the cwd
\* is one of the roots or is below one ("root/" begins it)
ThreadInScope(item, roots) ==
    /\ item.cwd.string
    /\ LET cwd == PathStripSlashes(PathTrim(item.cwd.path))
       IN \E i \in DOMAIN roots :
              \/ cwd = roots[i]
              \/ /\ Len(cwd) > Len(roots[i])
                 /\ \A k \in 1..Len(roots[i]) : cwd[k] = roots[i][k]
                 /\ cwd[Len(roots[i]) + 1] = "/"

\* the entries of data that are in scope of the roots, in their order
ThreadScoped(data, roots) ==
    LET InScope(item) == ThreadInScope(item, roots)
    IN SelectSeq(data, InScope)

\* C25 as stated: the relayed data are exactly the entries of result.data, in
\* their order, whose normalized cwd is a saved workspace root or is below
\* one; when there are no saved roots the result is relayed as it is
C25_ScopedToSavedRoots ==
    ThreadRelayed
        => /\ threadLast.relayed.array
           /\ threadLast.relayed.data =
                  IF workspaceRootOptions = <<>> THEN threadLast.result.data
                  ELSE ThreadScoped(threadLast.result.data, workspaceRootOptions)

\* the saved roots of which something is left once they are trimmed and
\* their trailing slashes are gone: all but "/" and the like
ThreadEffectiveRoots ==
    LET Remains(root) == PathStripSlashes(PathTrim(root)) # <<>>
    IN SelectSeq(workspaceRootOptions, Remains)

\* C25: the relayed data are exactly the entries of result.data, in their
\* order, whose normalized cwd is, or is below, a saved workspace root as
\* normalisation leaves it; when there is no saved root, or none of which
\* normalisation leaves anything (the root directory "/"), the result is
\* relayed as it is
C25_ScopedToNormalizedRoots ==
    ThreadRelayed
        => /\ threadLast.relayed.array
           /\ threadLast.relayed.data =
                  IF ThreadEffectiveRoots = <<>> THEN threadLast.result.data
                  ELSE ThreadScoped(threadLast.result.data,
                                    [i \in DOMAIN ThreadEffectiveRoots |->
                                         PathStripSlashes(PathTrim(ThreadEffectiveRoots[i]))])

\* two entries were forwarded under the saved root "a": one below the root,
\* which is relayed, and before it a sibling that shares the prefix, which
\* is not
C25_Witness ==
    /\ ThreadRelayed
    /\ workspaceRootOptions = << <<"a">> >>
    /\ Len(threadLast.result.data) = 2
    /\ threadLast.result.data[1].cwd = PathValue(<<"a", "a">>)
    /\ threadLast.result.data[2].cwd = PathValue(<<"a", "/", "a">>)
    /\ threadLast.relayed.data = <<threadLast.result.data[2]>>

----------------------------------------------------------------------------
(* Isolation of the timeouts of both clients *)

\* the futures of the AppServerManager that own a pending entry and a timer
RpcOwners(c, reqs) ==
    {i \in DOMAIN reqs : /\ reqs[i].timer
                         /\ reqs[i].id \in DOMAIN c.pending
                         /\ c.pending[reqs[i].id] = i}

\* C26: the timeout of one request, on either client, removes the pending
\* entry of that request alone: every other request that has a pending
\* entry and a timer keeps both, and its future is as it was
C26_TimeoutsIsolated ==
    [][/\ busLast'.op = "timeout"
            => \A i \in bus.pending \ {busLast'.id} :
                   /\ i \in bus'.pending
                   /\ busReqs'[i] = busReqs[i]
       /\ rpcLast'.op = "timeout"
            => \A i \in RpcOwners(rpc, rpcReqs) :
                   rpcReqs'[i].timer
                       => /\ i \in RpcOwners(rpc', rpcReqs')
                          /\ rpcReqs'[i] = rpcReqs[i]]_vars

----------------------------------------------------------------------------
(* Properties of the view messages that the Router declines *)

\* the last handler was handleEnvelope for a view message whose type is in
\* GRACEFUL_UNSUPPORTED_BUCKET
RouterDeclined(last) ==
    /\ last.op = "handleEnvelope"
    /\ last.envelope.type = "view-message"
    /\ last.envelope.payload.type \in SeqToSet(GRACEFUL_UNSUPPORTED_BUCKET)

\* C27: a view message of a type in GRACEFUL_UNSUPPORTED_BUCKET is answered
\* with one bridge-error of code unsupported_native_action to its sender and
\* nothing else, and it changes nothing in the RPC client, the bus client,
\* the terminal registry, the worker bridge or the Router's registries
C27_DeclinedTouchesNothing ==
    [][RouterDeclined(envLast')
          => /\ envLast'.sent = <<RouterMsg(envLast'.ws, "bridge-error",
                                            "unsupported_native_action", NoId, "none")>>
             /\ ~envLast'.threw
             /\ UNCHANGED RouterState
             /\ UNCHANGED <<rpcVars, busVars, termVars>>]_vars

\* a declined message arrived while a fetch, a worker request and a shared
\* object's subscriber were registered
C27_Witness ==
    /\ RouterDeclined(envLast)
    /\ Len(envLast.sent) = 1
    /\ fetchControllers # EmptyMap
    /\ DOMAIN sharedObjectSubscribers # {}
    /\ workerInbox # {}

----------------------------------------------------------------------------
(* Properties of the choice of a terminal session's backend *)

\* the backends in their order of priority
TermBackends == <<"bun-pty", "python-pty", "pipe">>

\* whether registry c has the backend marked available; pipe has no mark
TermMarked(c, mode) ==
    IF mode = "bun-pty" THEN c.bunPtyAvailable
    ELSE IF mode = "python-pty" THEN c.pythonPtyAvailable
    ELSE TRUE

\* the first backend, in the order of priority, that c has marked available
TermPreferred(c) ==
    TermBackends[CHOOSE i \in DOMAIN TermBackends :
                     /\ TermMarked(c, TermBackends[i])
                     /\ \A k \in 1..(i - 1) : ~TermMarked(c, TermBackends[k])]

\* C28: a backend that is marked unavailable is never marked available
\* again, and no spawn of it is attempted; a createOrAttach that creates a
\* session attempts the backends marked available in the order bun-pty,
\* python-pty, pipe, marks unavailable those whose spawn failed, and runs the
\* session on the first that is then still marked available, which is pipe
\* when no other is
C28_BackendSelection ==
    [][/\ \A mode \in SeqToSet(TermBackends) :
              ~TermMarked(term, mode)
                  => /\ ~TermMarked(term', mode)
                     /\ (termLast' # termLast
                             => \A i \in DOMAIN termLast'.tried : termLast'.tried[i] # mode)
       /\ (termLast'.op = "createOrAttach" /\ termLast'.spawned = 1)
              => LET session == term'.sessions[termLast'.sessionId]
                     tried == termLast'.tried
                 IN /\ session.mode = TermPreferred(term')
                    /\ termProcs'[session.proc].mode = session.mode
                    /\ tried[Len(tried)] = session.mode
                    /\ \A i \in 1..(Len(tried) - 1) :
                           /\ TermMarked(term, tried[i])
                           /\ ~TermMarked(term', tried[i])
                    /\ \A i \in 1..Len(tried), k \in 1..Len(tried) :
                           i < k => \E a, b \in DOMAIN TermBackends :
                                        /\ a < b
                                        /\ TermBackends[a] = tried[i]
                                        /\ TermBackends[b] = tried[k]]_vars

\* the spawn of the bun-pty runtime failed earlier, and now that of the
\* python-pty runtime has failed too: the session runs in pipe mode and no
\* spawn of bun-pty was attempted for it
C28_Witness ==
    /\ termLast.op = "createOrAttach"
    /\ termLast.spawned = 1
    /\ termLast.tried = <<"python-pty", "pipe">>
    /\ Len(termProcs) = 2
    /\ termProcs[1].mode = "python-pty"
    /\ term.sessions[termLast.sessionId].mode = "pipe"

----------------------------------------------------------------------------
(* Properties of the debounced writes of the global state *)

\* the handlers that change the global state
PersistMutations == {"persisted-atom-update", "persisted-atom-reset", "workspace"}

\* C29: a persisted-atom-update, a persisted-atom-reset or a change of the
\* saved workspace roots starts no write to disk, and when it has changed
\* the state a write timer is armed after it; at no time is more than one
\* write timer armed; a timer that fires starts one write, which carries the
\* state as it is then, that of the last mutation, and leaves no timer armed
C29_DebouncedPersistence ==
    [][/\ persistArmed' <= 1
       /\ persistLast' # persistLast
            => /\ persistLast'.op \in PersistMutations
                    => /\ persistLast'.written = <<>>
                       /\ (persistedAtomState' # persistedAtomState
                               \/ workspaceRootOptions' # workspaceRootOptions)
                              => globalStateWriteTimer' /\ persistArmed' = 1
               /\ persistLast'.op = "timer"
                    => /\ persistLast'.written =
                              <<[roots |-> workspaceRootOptions',
                                 atoms |-> persistedAtomState']>>
                       /\ persistedAtomState' = persistedAtomState
                       /\ workspaceRootOptions' = workspaceRootOptions
                       /\ persistArmed' = 0
                       /\ ~globalStateWriteTimer']_vars

\* the timer fired after two or more mutations and started one write
C29_Witness ==
    /\ persistLast.op = "timer"
    /\ persistLast.burst = 2
    /\ Len(persistLast.written) = 1
    /\ persistLast.written[1].atoms # EmptyMap
    /\ persistArmed = 0

----------------------------------------------------------------------------
(* Properties of MessageRouter.dispose *)

\* dispose() of the Router has returned and no handler of the Router or of
\* its global state has run since
RouterDisposed == envLast.op = "dispose" /\ persistLast.op = "dispose"

\* C30: when dispose() has returned no write timer is armed, and the timer
\* that was armed at the call was cleared and its write started once; the
\* terminal registry is empty and no process of a terminal session runs; the
\* worker is terminated and its pending map is empty; every fetch in flight
\* is aborted and fetchControllers is empty
C30_DisposeLeavesNothing ==
    RouterDisposed
        => /\ persistArmed = 0
           /\ ~globalStateWriteTimer
           /\ Len(persistLast.written) = IF persistLast.burst > 0 THEN 1 ELSE 0
           /\ DOMAIN term.sessions = {}
           /\ \A p \in DOMAIN termProcs : termProcs[p].state # "running"
           /\ ~gitWorker.worker
           /\ gitWorker.pendingByRequestId = EmptyMap
           /\ fetchControllers = EmptyMap
           /\ \A call \in routerFetching : call.aborted

----------------------------------------------------------------------------
(* Properties of the workspace roots *)

\* no duplicate, no empty entry, no entry that ends with a slash
RootsNormalized(roots) ==
    /\ \A i, j \in DOMAIN roots : roots[i] = roots[j] => i = j
    /\ \A i \in DOMAIN roots : roots[i] # <<>> /\ roots[i][Len(roots[i])] # "/"

\* the handlers that change the workspace roots
RootMutations == {"workspace", "onboarding-skip", "set-active", "set-global-state"}

\* a message that changes the workspace roots has been handled
RootsMutated == persistLast.op \in RootMutations \cup {"timer"}

\* C31: after any sequence of messages that change the workspace roots,
\* neither the active nor the saved roots hold a duplicate, an empty entry
\* or an entry with a trailing slash
C31_RootsStayNormalized ==
    RootsMutated
        => RootsNormalized(workspaceRootOptions) /\ RootsNormalized(activeWorkspaceRoots)

----------------------------------------------------------------------------
(* Properties of the data handler of the bus client *)

\* the data handler ran last and this.decoder.push threw in it
BusProtocolError == busLast.op = "data" /\ fdError # "none"

\* C32: when push throws in the data handler of a socket (buffer limit,
\* frame limit, or a payload that is no JSON), the handler destroys that
\* socket and handles no message of the delivery, so that every request
\* pending before is still pending; the close handler that follows rejects
\* every pending request
C32_ProtocolErrorsAreFatal ==
    /\ BusProtocolError
            => /\ busSocks[busLast.id] = "destroyed"
               /\ busHandled = <<>>
               /\ bus.pending = busLast.ids
               /\ \A i \in busLast.ids : busReqs[i].state = "pending"
    /\ busLast.op = "close"
            => /\ bus.pending = {}
               /\ \A i \in busLast.ids : busReqs[i].state = "rejected"

\* a response to a pending request came in one delivery with a frame that
\* is no JSON: the request is still pending and the socket is destroyed
C32_Witness ==
    /\ BusProtocolError
    /\ fdError = "json"
    /\ fdLastChunk = BusResponseFrame(1) \o BusBadJsonFrame
    /\ 1 \in bus.pending
    /\ busSocks[busLast.id] = "destroyed"

----------------------------------------------------------------------------
(* Properties of the stdout reader of the request client *)

\* the payloads of the lines that are JSON texts, in the order of the lines
RECURSIVE StdoutExpected(_)
StdoutExpected(lines) ==
    IF lines = <<>> THEN <<>>
    ELSE LET line == TextTrim(Head(lines))
         IN (IF line # <<>> /\ JSONparse(line).ok THEN <<JSONparse(line).v>> ELSE <<>>)
                \o StdoutExpected(Tail(lines))

IsPrefix(p, q) == Len(p) <= Len(q) /\ SubSeq(q, 1, Len(p)) = p

\* C33: however the stdout of the subprocess is cut into chunks, the
\* payloads handled are those of the complete lines that are JSON texts, in
\* stream order, all of them once the stream is delivered; no handler
\* throws; the start of a line without newline stays in the buffer; the
\* client stays connected to its subprocess and its pending request is
\* settled by nothing but its response
C33_BadLinesTolerated ==
    /\ ~stdoutThrew
    /\ IsPrefix(stdoutHandled, StdoutExpected(stdoutSent.lines))
    /\ (rpcProcs # <<>> /\ stdoutWire = <<>>)
            => /\ stdoutHandled = StdoutExpected(stdoutSent.lines)
               /\ rpc.stdoutBuffer = stdoutSent.partial
    /\ rpcProcs # <<>>
            => /\ rpc.connected /\ rpc.proc = 1
               /\ rpcReqs[1].state \in {"pending", "resolved"}
               /\ rpcReqs[1].state = "resolved"
                      <=> \E i \in DOMAIN stdoutHandled : RpcPayloadId(stdoutHandled[i]) = 1

\* the bytes that a decoder has received and not yet turned into a message
BusUndecoded(length, buffer) ==
    (IF length = NoLength THEN <<>> ELSE writeUInt32LE(length)) \o buffer

RECURSIVE BusFramesOf(_)
BusFramesOf(messages) ==
    IF messages = <<>> THEN <<>>
    ELSE BusPeerFrame(Head(messages)) \o BusFramesOf(Tail(messages))

\* what the handler is to do with the messages of a delivery, in their
\* order, when pending are the requests without response so far
RECURSIVE BusExpectedEvents(_, _)
BusExpectedEvents(messages, pending) ==
    IF messages = <<>> THEN <<>>
    ELSE LET type == BusMessageType(Head(messages))
             id == IF type = "response" THEN BusRequestId(Head(messages)) ELSE 0
         IN (CASE type = "response" ->
                      IF id \in pending THEN <<[type |-> "resolved", id |-> id]>> ELSE <<>>
               [] type = "client-discovery-request" -> <<[type |-> "written", id |-> 0]>>
               [] OTHER -> <<[type |-> type, id |-> 0]>>)
                \o BusExpectedEvents(Tail(messages), pending \ {id})

\* C34: a delivery in which push does not throw, and after which the socket
\* is still open, returns the complete frames
\* of the bytes received so far, in byte order, and keeps the bytes of an
\* incomplete frame for the next delivery; the handler deals with the
\* returned messages in that order, and every response among them to a
\* pending request resolves that request, whatever broadcasts and requests
\* stand before it
C34_InOrderDelivery ==
    [][(busLast'.op = "data" /\ busDelivered' # busDelivered /\ fdError' = "none"
            /\ busSocks'[busLast'.id] = "open")
          => /\ BusUndecoded(fdCurrentFrameLength, fdBuffer) \o fdLastChunk'
                    = BusFramesOf(fdLastReturn')
                          \o BusUndecoded(fdCurrentFrameLength', fdBuffer')
             /\ IF fdCurrentFrameLength' = NoLength THEN Len(fdBuffer') < 4
                ELSE Len(fdBuffer') < fdCurrentFrameLength'
             /\ busHandled' = BusExpectedEvents(fdLastReturn', bus.pending)
             /\ \A i \in DOMAIN fdLastReturn' :
                    (BusMessageType(fdLastReturn'[i]) = "response"
                        /\ BusRequestId(fdLastReturn'[i]) \in bus.pending)
                       => /\ busReqs'[BusRequestId(fdLastReturn'[i])].state = "resolved"
                          /\ BusRequestId(fdLastReturn'[i]) \notin bus'.pending]_vars

\* a broadcast and the response to a pending request came in one delivery:
\* the broadcast was emitted and then the request resolved
C34_Witness ==
    /\ busLast.op = "data"
    /\ fdLastChunk = BusBroadcastFrame \o BusResponseFrame(2)
    /\ busHandled = <<[type |-> "broadcast", id |-> 0], [type |-> "resolved", id |-> 2]>>
    /\ busReqs[2].state = "resolved"

----------------------------------------------------------------------------
(* Properties of late exit events *)

\* process p does not run the session registered under its session id
TermStale(p) ==
    LET sid == termProcs[p].sessionId
    IN sid \notin DOMAIN term.sessions \/ term.sessions[sid].proc # p

\* C35: the exit event of a process that no longer runs the session
\* registered under its id removes no session and sends nothing, and the
\* process of every registered session is one that has not exited
C35_ExitAffectsOwnSession ==
    [][/\ (termLast'.op = "exit" /\ TermStale(termLast'.proc))
            => /\ term'.sessions = term.sessions
               /\ termLast'.sent = <<>>
       /\ \A sid \in DOMAIN term'.sessions :
              termProcs'[term'.sessions[sid].proc].state # "exited"]_vars

\* the exit handler of subprocess p runs in this step
RpcExitStep(p) ==
    /\ rpcLast'.op = "exit"
    /\ rpcProcs[p].state # "exited"
    /\ rpcProcs'[p].state = "exited"

\* C36: the exit event of a subprocess that a stop() has replaced, handled
\* when start() has spawned its successor, leaves the process handle on the
\* successor, leaves connected and initialized as they are and rejects no
\* request; at no time do two subprocesses run
C36_LateExitLeavesSuccessor ==
    [][/\ \A p \in DOMAIN rpcProcs :
              (RpcExitStep(p) /\ rpc.proc # NoProc /\ rpc.proc # p)
                  => /\ rpc'.proc = rpc.proc
                     /\ rpc'.connected = rpc.connected
                     /\ rpc'.initialized = rpc.initialized
                     /\ \A r \in DOMAIN rpcReqs :
                            rpcReqs[r].state = "pending" => rpcReqs'[r].state = "pending"
       /\ Cardinality({p \in DOMAIN rpcProcs' : rpcProcs'[p].state = "running"}) <= 1]_vars

----------------------------------------------------------------------------
(* Properties of the sockets of the bus client *)

\* C37: from the return of stop() to the next start() the client is
\* disconnected (connected is false, socket is null, and with them
\* isReady()) and no reconnect timer is armed
C37_StoppedMeansDisconnected ==
    bus.stopped
        => /\ ~bus.connected
           /\ bus.socket = NoSocket
           /\ ~(bus.connected /\ bus.initialized)
           /\ ~bus.reconnectTimer
           /\ busReconnectArmed = 0

\* C38: when a socket of the client connects, the frame decoder holds no
\* buffered bytes and no pending frame length
C38_CleanDecoderOnConnect ==
    busLast.op = "connect"
        => /\ fdBuffer = <<>>
           /\ fdCurrentFrameLength = NoLength

\* the sockets of the client that are connecting or connected
BusLiveSockets ==
    {s \in DOMAIN busSocks : busSocks[s] \in {"connecting", "open"}}

\* C39: at most one socket of the client is connecting or connected, and
\* after the close event of a socket a connected later socket is still the
\* socket of the client, with the connected flag set
C39_AtMostOneSocket ==
    /\ Cardinality(BusLiveSockets) <= 1
    /\ busLast.op = "close"
          => \A s \in DOMAIN busSocks :
                 busSocks[s] = "open" => bus.socket = s /\ bus.connected

----------------------------------------------------------------------------
(* Properties of the cancellation handles of forwarded fetches *)

\* C40: while a forwarded fetch is in flight and was not cancelled,
\* fetchControllers maps its request id to the controller of that fetch
C40_ControllersMatchFetches ==
    \A call \in routerFetching :
        ~call.aborted
            => /\ call.requestId \in DOMAIN fetchControllers
               /\ fetchControllers[call.requestId] = call.ws

====
